---- MODULE Spec2Model ----
(***************************************************************************)
(* A model of the WebMainframe COBOL simulator: the tree-walking Runtime   *)
(* (src/compiler/runtime.ts), the COPY Preprocessor, the semantic          *)
(* validator and the compile-and-run pipeline of App.tsx.                  *)
(*                                                                         *)
(* JavaScript values are modelled as tagged records: a number is a         *)
(* rational n/d (d > 0, lowest terms), NaN and +/-Infinity have their own  *)
(* tags, and a string is a sequence of one-character strings.              *)
(***************************************************************************)
EXTENDS Integers, Sequences, FiniteSets, TLC

(***************************************************************************)
(* JavaScript values                                                       *)
(***************************************************************************)
Abs(x) == IF x < 0 THEN -x ELSE x

RECURSIVE Gcd(_, _)
Gcd(a, b) == IF b = 0 THEN a ELSE Gcd(b, a % b)

\* Math.floor of the rational n/d, d > 0
FloorDiv(n, d) == IF n >= 0 THEN n \div d ELSE -(((-n) + d - 1) \div d)

RECURSIVE Pow(_, _)
Pow(b, e) == IF e = 0 THEN 1 ELSE b * Pow(b, e - 1)

Rat(n, d) ==
    LET g == Gcd(Abs(n), Abs(d))
        s == IF d < 0 THEN -1 ELSE 1
    IN  [t |-> "num", n |-> (s * n) \div g, d |-> (s * d) \div g, s |-> <<>>]
Num(n) == [t |-> "num", n |-> n, d |-> 1, s |-> <<>>]
Str(s) == [t |-> "str", n |-> 0, d |-> 1, s |-> s]
NaN == [t |-> "nan", n |-> 0, d |-> 1, s |-> <<>>]
Infinity == [t |-> "inf", n |-> 1, d |-> 1, s |-> <<>>]
NegInfinity == [t |-> "inf", n |-> -1, d |-> 1, s |-> <<>>]

isNaN(v) == v.t = "nan"

Digits == <<"0", "1", "2", "3", "4", "5", "6", "7", "8", "9">>
IsDigit(c) == \E i \in 1..10 : Digits[i] = c
DigitVal(c) == (CHOOSE i \in 1..10 : Digits[i] = c) - 1

\* the printable ASCII characters in code order, from the blank (code 32);
\* the grave accent (code 96) is left out
Ascii ==
  <<" ", "!", "\"", "#", "$", "%", "&", "'", "(", ")", "*", "+",
     ",", "-", ".", "/", "0", "1", "2", "3", "4", "5", "6", "7",
     "8", "9", ":", ";", "<", "=", ">", "?", "@", "A", "B", "C",
     "D", "E", "F", "G", "H", "I", "J", "K", "L", "M", "N", "O",
     "P", "Q", "R", "S", "T", "U", "V", "W", "X", "Y", "Z", "[",
     "\\", "]", "^", "_", "grave", "a", "b", "c", "d", "e", "f", "g",
     "h", "i", "j", "k", "l", "m", "n", "o", "p", "q", "r", "s",
     "t", "u", "v", "w", "x", "y", "z", "{", "|", "}", "~">>
\* String.prototype.charCodeAt: the UTF-16 code unit of an ASCII character
CharCode(c) == 31 + (CHOOSE i \in 1..Len(Ascii) : Ascii[i] = c)

RECURSIVE NatToDigits(_)
NatToDigits(n) ==
    IF n < 10 THEN <<Digits[n + 1]>>
    ELSE NatToDigits(n \div 10) \o <<Digits[(n % 10) + 1]>>

RECURSIVE DigitsToNat(_)
DigitsToNat(s) ==
    IF s = <<>> THEN 0
    ELSE 10 * DigitsToNat(SubSeq(s, 1, Len(s) - 1)) + DigitVal(s[Len(s)])

AllDigits(s) == s # <<>> /\ \A i \in 1..Len(s) : IsDigit(s[i])

\* String.prototype.trim / trimStart over the blank character
RECURSIVE trimStart(_)
trimStart(s) == IF s # <<>> /\ s[1] = " " THEN trimStart(Tail(s)) ELSE s
RECURSIVE trimEnd(_)
trimEnd(s) ==
    IF s # <<>> /\ s[Len(s)] = " " THEN trimEnd(SubSeq(s, 1, Len(s) - 1)) ELSE s
trim(s) == trimEnd(trimStart(s))

\* String.prototype.substring(a, b) on 0-based offsets, clamped as JS does
substring(s, a, b) ==
    LET lo0 == IF a < 0 THEN 0 ELSE IF a > Len(s) THEN Len(s) ELSE a
        hi0 == IF b < 0 THEN 0 ELSE IF b > Len(s) THEN Len(s) ELSE b
        lo == IF lo0 <= hi0 THEN lo0 ELSE hi0
        hi == IF lo0 <= hi0 THEN hi0 ELSE lo0
    IN  SubSeq(s, lo + 1, hi)
substringFrom(s, a) == substring(s, a, Len(s))

\* String.prototype.padEnd(len, ' ')
padEnd(s, len) ==
    IF Len(s) >= len THEN s ELSE s \o [i \in 1..(len - Len(s)) |-> " "]

InfinityText == <<"I", "n", "f", "i", "n", "i", "t", "y">>

\* String(v): a number prints in decimal (integers only: every number the
\* model converts to text is an integer), NaN and Infinity by name
String(v) ==
    CASE v.t = "str" -> v.s
      [] v.t = "nan" -> <<"N", "a", "N">>
      [] v.t = "inf" -> IF v.n < 0 THEN <<"-">> \o InfinityText ELSE InfinityText
      [] v.t = "num" ->
           IF v.n < 0 THEN <<"-">> \o NatToDigits(FloorDiv(-v.n, v.d))
           ELSE NatToDigits(FloorDiv(v.n, v.d))

\* Number(v): StringToNumber trims blanks, reads "" as 0, an optionally
\* signed run of digits as that integer, "Infinity" by name, the rest as NaN
Number(v) ==
    IF v.t # "str" THEN v
    ELSE LET s == trim(v.s)
             neg == s # <<>> /\ s[1] = "-"
             body == IF neg THEN Tail(s) ELSE s
         IN  CASE s = <<>> -> Num(0)
               [] AllDigits(body) ->
                    Num(IF neg THEN -DigitsToNat(body) ELSE DigitsToNat(body))
               [] body = InfinityText -> IF neg THEN NegInfinity ELSE Infinity
               [] OTHER -> NaN

\* parseInt(s, 10): the longest leading run of digits after blanks and a sign
RECURSIVE LeadingDigits(_)
LeadingDigits(s) ==
    IF s # <<>> /\ IsDigit(s[1]) THEN <<s[1]>> \o LeadingDigits(Tail(s)) ELSE <<>>
parseInt(s) ==
    LET u == trimStart(s)
        neg == u # <<>> /\ u[1] = "-"
        ds == LeadingDigits(IF neg THEN Tail(u) ELSE u)
    IN  IF ds = <<>> THEN NaN
        ELSE Num(IF neg THEN -DigitsToNat(ds) ELSE DigitsToNat(ds))

\* Math.floor
MathFloor(v) == IF v.t = "num" THEN Num(FloorDiv(v.n, v.d)) ELSE v

\* a > b on numbers (false when either is NaN)
NumGreater(a, b) ==
    CASE isNaN(a) \/ isNaN(b) -> FALSE
      [] a.t = "inf" /\ b.t = "inf" -> a.n > b.n
      [] a.t = "inf" -> a.n > 0
      [] b.t = "inf" -> b.n < 0
      [] OTHER -> a.n * b.d > b.n * a.d
\* a === b on numbers
NumEquals(a, b) == ~isNaN(a) /\ ~isNaN(b) /\ a = b

\* a < b on strings: by UTF-16 code unit, a proper prefix is smaller
RECURSIVE StrLess(_, _)
StrLess(a, b) ==
    CASE b = <<>> -> FALSE
      [] a = <<>> -> TRUE
      [] CharCode(a[1]) # CharCode(b[1]) -> CharCode(a[1]) < CharCode(b[1])
      [] OTHER -> StrLess(Tail(a), Tail(b))

\* the arithmetic of + - * / on numbers
NumNeg(a) ==
    CASE a.t = "num" -> Rat(-a.n, a.d)
      [] a.t = "inf" -> IF a.n > 0 THEN NegInfinity ELSE Infinity
      [] OTHER -> NaN
Sign(a) == IF a.n > 0 THEN 1 ELSE IF a.n < 0 THEN -1 ELSE 0
NumAdd(a, b) ==
    CASE isNaN(a) \/ isNaN(b) -> NaN
      [] a.t = "inf" /\ b.t = "inf" -> IF a.n = b.n THEN a ELSE NaN
      [] a.t = "inf" -> a
      [] b.t = "inf" -> b
      [] OTHER -> Rat(a.n * b.d + b.n * a.d, a.d * b.d)
NumSub(a, b) == NumAdd(a, NumNeg(b))
NumMul(a, b) ==
    CASE isNaN(a) \/ isNaN(b) -> NaN
      [] a.t = "inf" \/ b.t = "inf" ->
           IF Sign(a) * Sign(b) = 0 THEN NaN
           ELSE IF Sign(a) * Sign(b) > 0 THEN Infinity ELSE NegInfinity
      [] OTHER -> Rat(a.n * b.n, a.d * b.d)
\* a / b: a zero divisor gives an infinity (NaN for 0/0), never an exception
NumDiv(a, b) ==
    CASE isNaN(a) \/ isNaN(b) -> NaN
      [] a.t = "inf" /\ b.t = "inf" -> NaN
      [] a.t = "inf" -> IF Sign(a) * Sign(b) >= 0 THEN Infinity ELSE NegInfinity
      [] b.t = "inf" -> Num(0)
      [] b.n = 0 -> IF a.n = 0 THEN NaN
                    ELSE IF a.n > 0 THEN Infinity ELSE NegInfinity
      [] OTHER -> Rat(a.n * b.d, a.d * b.n)
\* String.prototype.toUpperCase: a to z go to A to Z, 32 code units lower
UpperChar(c) ==
    IF CharCode(c) >= 97 /\ CharCode(c) <= 122 THEN Ascii[CharCode(c) - 32 - 31]
    ELSE c
toUpperCase(s) == [i \in 1..Len(s) |-> UpperChar(s[i])]

(***************************************************************************)
(* Program constants of the Runtime                                        *)
(***************************************************************************)
MAX_LOOP_ITERATIONS == 100000
MAX_STACK_DEPTH == 100

\* Nested handleCall activations the host's native stack holds before the
\* engine raises RangeError (the interpreter recurses once per CALL)
MaxNativeCalls == 102
\* frames a Runtime may create over all its runs
MaxFrames == 3

(***************************************************************************)
(* Results of operations that may throw: err = "" means normal completion  *)
(***************************************************************************)
NoErr == ""
Ok(v) == [err |-> NoErr, v |-> v]
\* throw new Error(msg); a message is kept up to the value it interpolates
Throw(msg) == [err |-> msg, v |-> NaN]

Quote == "\""
IsQuote(c) == c = "\"" \/ c = "'"
startsWithQuote(s) == s # <<>> /\ IsQuote(s[1])

\* Runtime.stripQuotes: both ends must carry the same quote character
stripQuotes(s) ==
    IF s # <<>> /\ IsQuote(s[1]) /\ s[Len(s)] = s[1]
    THEN SubSeq(s, 2, Len(s) - 1)
    ELSE s

\* picCut keeping the last characters, as the numeric rule does
picCutTail(s, length) ==
    IF Len(s) > length THEN substringFrom(s, Len(s) - length) ELSE s
\* applyPicRules, type X: if (s.length > length) s = s.substring(0, length)
picCut(s, length) == IF Len(s) > length THEN substring(s, 0, length) ELSE s
\* applyPicRules, type X: if (s.length < length) s = s.padEnd(length, ' ')
picPad(s, length) == IF Len(s) < length THEN padEnd(s, length) ELSE s
\* applyPicRules, numeric: s.substring(s.length - length)
picTail(s, length) == substringFrom(s, Len(s) - length)
\* applyPicRules, numeric: only a value above 10^length - 1 is cut
picTruncate(n, length) ==
    IF NumGreater(n, Num(Pow(10, length) - 1))
    THEN Ok(parseInt(picTail(String(n), length)))
    ELSE Ok(n)
\* applyPicRules, numeric, on n0 = Number(val)
picNumeric(n0, length) ==
    IF isNaN(n0) THEN Throw("IGZ0020S INVALID NUMERIC DATA")
    ELSE picTruncate(MathFloor(n0), length)

\* Runtime.applyPicRules
applyPicRules(val, type, length) ==
    IF type = "X"
    THEN Ok(Str(picPad(picCut(String(val), length), length)))
    ELSE picNumeric(Number(val), length)

(***************************************************************************)
(* Frames and cells.  A VariableContext is a heap cell; a frame's memory   *)
(* and linkage maps take a name to the cell it is bound to, so that two    *)
(* names bound to one cell alias.  A frame remembers the heap size at its  *)
(* creation: the cells it allocated become unreachable when it is popped.  *)
(***************************************************************************)
EmptyMap == [x \in {} |-> 0]
MapSet(m, k, v) == [x \in (DOMAIN m) \cup {k} |-> IF x = k THEN v ELSE m[x]]
MapHas(m, k) == k \in DOMAIN m

Cell(name, picType, length, rawValue) ==
    [name |-> name, picType |-> picType, length |-> length, rawValue |-> rawValue]

\* Runtime.getVariable on the current (top) frame: the cell id, 0 when the
\* lookup throws
getVariable(stack, name) ==
    IF stack = <<>> THEN 0
    ELSE LET currentFrame == stack[Len(stack)]
         IN  IF MapHas(currentFrame.memory, name) THEN currentFrame.memory[name]
             ELSE IF MapHas(currentFrame.linkage, name)
                  THEN currentFrame.linkage[name]
                  ELSE 0
getVariableError(stack) ==
    IF stack = <<>> THEN "INTERNAL ERROR: NO ACTIVE STACK FRAME."
    ELSE "IGYPS2001-E REFERENCE TO UNDEFINED VARIABLE"

\* Runtime.resolveValue: a number is itself, a quoted string its text,
\* anything else the value of the variable of that name
resolveValue(stack, heap, val) ==
    IF val.t = "num" THEN Ok(val)
    ELSE IF startsWithQuote(val.s) THEN Ok(Str(stripQuotes(val.s)))
    ELSE LET id == getVariable(stack, val.s)
         IN  IF id = 0 THEN Throw(getVariableError(stack))
             ELSE Ok(heap[id].rawValue)

Undefined == [t |-> "undef", n |-> 0, d |-> 1, s |-> <<>>]

\* Runtime.initializeData: one new cell per declaration, in order; a later
\* declaration of a name rebinds it
RECURSIVE initializeData(_, _, _, _)
\* initialRawValue with the VALUE clause ignored
initialRawValueDefault(v) ==
    IF v.picType = "9" THEN Num(0)
    ELSE Str([k \in 1..v.picLength |-> " "])
\* initializeData: the rawValue a declaration starts from
initialRawValue(v) ==
    IF v.defaultValue # Undefined
    THEN IF v.defaultValue.t = "str"
         THEN Str(stripQuotes(v.defaultValue.s))
         ELSE v.defaultValue
    ELSE IF v.picType = "9" THEN Num(0)
         ELSE Str([k \in 1..v.picLength |-> " "])
\* initializeData: memory.set of declaration v with its formatted value
memorySet(variables, i, memory, heap, v, formatted) ==
    IF formatted.err # NoErr
    THEN [err |-> formatted.err, memory |-> memory, heap |-> heap]
    ELSE initializeData(variables, i + 1,
             MapSet(memory, v.name, Len(heap) + 1),
             Append(heap, Cell(v.name, v.picType, v.picLength, formatted.v)))
initializeData(variables, i, memory, heap) ==
    IF i > Len(variables) THEN [err |-> NoErr, memory |-> memory, heap |-> heap]
    ELSE memorySet(variables, i, memory, heap, variables[i],
             applyPicRules(initialRawValue(variables[i]), variables[i].picType,
                           variables[i].picLength))

(***************************************************************************)
(* Statement handlers as functions of the call stack and the heap: each    *)
(* returns the error it throws (NoErr if none) and the heap it leaves.     *)
(***************************************************************************)
HeapResult(err, heap) == [err |-> err, heap |-> heap]
SetRaw(heap, id, v) == [heap EXCEPT ![id].rawValue = v]

NoSlice == [start |-> 0, len |-> -1]

\* target.rawValue = applyPicRules(...): the throw of applyPicRules leaves
\* the cell as it was
setRawValue(heap, id, r) ==
    IF r.err # NoErr THEN HeapResult(r.err, heap)
    ELSE HeapResult(NoErr, SetRaw(heap, id, r.v))

\* the text of handleMove with a targetSlice before it is cut to the length
\* of the cell
moveSliceUncut(val, current, start, len, length) ==
    Str(padEnd(substring(current, 0, start), start)
          \o substring(padEnd(val, len), 0, len)
          \o substringFrom(current, start + len))
\* handleMove with a targetSlice: val over current from start for len
moveSlice(val, current, start, len, length) ==
    Str(substring(padEnd(substring(current, 0, start), start)
                    \o substring(padEnd(val, len), 0, len)
                    \o substringFrom(current, start + len),
                  0, length))
\* handleMove once the source is resolved (src) and the target found (id)
moveTo(stack, heap, stmt, src, id) ==
    IF src.err # NoErr THEN HeapResult(src.err, heap)
    ELSE IF id = 0 THEN HeapResult(getVariableError(stack), heap)
    ELSE IF stmt.targetSlice # NoSlice
    THEN HeapResult(NoErr,
             SetRaw(heap, id,
                 moveSlice(String(src.v), String(heap[id].rawValue),
                           stmt.targetSlice.start - 1, stmt.targetSlice.len,
                           heap[id].length)))
    ELSE setRawValue(heap, id,
             applyPicRules(Str(String(src.v)), heap[id].picType, heap[id].length))
\* Runtime.handleMove
handleMove(stack, heap, stmt) ==
    moveTo(stack, heap, stmt, resolveValue(stack, heap, stmt.source),
           getVariable(stack, stmt.target))

\* the arrow functions executeStatement passes to handleMath
MathOp(type, a, b) ==
    CASE type = "ADD" -> Ok(NumAdd(a, b))
      [] type = "SUBTRACT" -> Ok(NumSub(b, a))
      [] type = "MULTIPLY" -> Ok(NumMul(a, b))
      [] type = "DIVIDE" -> IF a = Num(0) THEN Throw("DIV 0") ELSE Ok(NumDiv(b, a))

\* handleMath: the result of op(valA, valB) goes through applyPicRules
mathStore(heap, id, result) ==
    IF result.err # NoErr THEN HeapResult(result.err, heap)
    ELSE setRawValue(heap, id, applyPicRules(result.v, "9", heap[id].length))
\* handleMath once the operand is a number (valA) and the target found (id)
mathOn(stack, heap, stmt, valA, id) ==
    IF isNaN(valA) THEN HeapResult("IGZ0020S NON-NUMERIC OPERAND.", heap)
    ELSE IF id = 0 THEN HeapResult(getVariableError(stack), heap)
    ELSE IF heap[id].picType # "9"
         THEN HeapResult("IGYPS2113-E DATA ITEM MUST BE NUMERIC.", heap)
    ELSE mathStore(heap, id, MathOp(stmt.type, valA, Number(heap[id].rawValue)))
\* handleMath once the operand is resolved (a0)
mathWith(stack, heap, stmt, a0) ==
    IF a0.err # NoErr THEN HeapResult(a0.err, heap)
    ELSE mathOn(stack, heap, stmt, Number(a0.v), getVariable(stack, stmt.target))
\* Runtime.handleMath
handleMath(stack, heap, stmt) ==
    mathWith(stack, heap, stmt, resolveValue(stack, heap, stmt.value))

\* Math.pow for an integer exponent
MathPow(l, r) ==
    IF l.t # "num" \/ r.t # "num" \/ r.d # 1 THEN NaN
    ELSE IF r.n >= 0 THEN Rat(Pow(l.n, r.n), Pow(l.d, r.n))
    ELSE NumDiv(Num(1), Rat(Pow(l.n, -r.n), Pow(l.d, -r.n)))

\* Runtime.evaluateExpression
RECURSIVE evaluateExpression(_, _, _)
evaluateExpression(stack, heap, expr) ==
    CASE expr.type = "Literal" -> Ok(expr.value)
      [] expr.type = "Variable" ->
           LET id == getVariable(stack, expr.name)
               num == Number(heap[id].rawValue)
           IN  IF id = 0 THEN Throw(getVariableError(stack))
               ELSE IF isNaN(num) THEN Throw("IGZ0020S NON-NUMERIC DATA.")
               ELSE Ok(num)
      [] expr.type = "Unary" ->
           LET r == evaluateExpression(stack, heap, expr.right)
           IN  IF r.err # NoErr THEN r ELSE Ok(NumNeg(r.v))
      [] OTHER ->
           LET l == evaluateExpression(stack, heap, expr.left)
               r == evaluateExpression(stack, heap, expr.right)
           IN  IF l.err # NoErr THEN l
               ELSE IF r.err # NoErr THEN r
               ELSE CASE expr.operator = "PLUS" -> Ok(NumAdd(l.v, r.v))
                      [] expr.operator = "MINUS" -> Ok(NumSub(l.v, r.v))
                      [] expr.operator = "ASTERISK" -> Ok(NumMul(l.v, r.v))
                      [] expr.operator = "SLASH" -> Ok(NumDiv(l.v, r.v))
                      [] expr.operator = "POWER" -> Ok(MathPow(l.v, r.v))
                      [] OTHER -> Ok(Num(0))

\* handleCompute once the expression is evaluated (result) and the target
\* found (id)
computeTo(stack, heap, result, id) ==
    IF result.err # NoErr THEN HeapResult(result.err, heap)
    ELSE IF id = 0 THEN HeapResult(getVariableError(stack), heap)
    ELSE IF heap[id].picType # "9"
         THEN HeapResult("IGYPS2113-E TARGET MUST BE NUMERIC.", heap)
    ELSE setRawValue(heap, id, applyPicRules(result.v, "9", heap[id].length))
\* Runtime.handleCompute
handleCompute(stack, heap, stmt) ==
    computeTo(stack, heap, evaluateExpression(stack, heap, stmt.expression),
              getVariable(stack, stmt.target))

\* Runtime.handleDisplay: the line it pushes, or the error resolving an operand
RECURSIVE handleDisplay(_, _, _, _)
handleDisplay(stack, heap, values, i) ==
    IF i > Len(values) THEN Ok(Str(<<>>))
    ELSE LET val == resolveValue(stack, heap, values[i])
             rest == handleDisplay(stack, heap, values, i + 1)
         IN  IF val.err # NoErr THEN val
             ELSE IF rest.err # NoErr THEN rest
             ELSE Ok(Str(String(val.v) \o rest.v.s))

\* compareNumbers with > read as "not less"
compareNumbersNotLess(operator, nL, nR) ==
    CASE operator = "=" -> NumEquals(nL, nR)
      [] operator = ">" -> ~NumGreater(nR, nL)
      [] operator = "<" -> NumGreater(nR, nL)
      [] OTHER -> FALSE
\* evaluateCondition: the switch on the operator, over numbers
compareNumbers(operator, nL, nR) ==
    CASE operator = "=" -> NumEquals(nL, nR)
      [] operator = ">" -> NumGreater(nL, nR)
      [] operator = "<" -> NumGreater(nR, nL)
      [] OTHER -> FALSE
\* evaluateCondition: the switch on the operator, over strings
compareStrings(operator, sL, sR) ==
    CASE operator = "=" -> sL = sR
      [] operator = ">" -> StrLess(sR, sL)
      [] operator = "<" -> StrLess(sL, sR)
      [] OTHER -> FALSE
\* evaluateCondition on the resolved operands, nL and nR their Number()
compareRaw(operator, rawLeft, rawRight, nL, nR) ==
    IF ~isNaN(nL) /\ ~isNaN(nR) /\ rawLeft # Str(<<>>) /\ rawRight # Str(<<>>)
    THEN compareNumbers(operator, nL, nR)
    ELSE compareStrings(operator, String(rawLeft), String(rawRight))
\* evaluateCondition once both operands are resolved
conditionOn(operator, rawLeft, rawRight) ==
    IF rawLeft.err # NoErr THEN rawLeft
    ELSE IF rawRight.err # NoErr THEN rawRight
    ELSE Ok(IF compareRaw(operator, rawLeft.v, rawRight.v,
                          Number(rawLeft.v), Number(rawRight.v))
            THEN Num(1) ELSE Num(0))
\* Runtime.evaluateCondition: v is Num(1) for true, Num(0) for false
evaluateCondition(stack, heap, cond) ==
    conditionOn(cond.operator, resolveValue(stack, heap, cond.left),
                resolveValue(stack, heap, cond.right))
(***************************************************************************)
(* The abstract syntax the parser hands to the Runtime (types.ts).  An     *)
(* operand of type string | number is a value: a number, or a string that  *)
(* is a quoted literal when it starts with a quote and a name otherwise.   *)
(***************************************************************************)
Q(s) == Str(<<Quote>> \o s \o <<Quote>>)

Decl(name, picType, picLength, defaultValue) ==
    [level |-> 1, name |-> name, picType |-> picType, picLength |-> picLength,
     defaultValue |-> defaultValue]
Program(id, workingStorage, linkageSection, usingParameters, statements) ==
    [id |-> id,
     dataDivision |-> [workingStorage |-> workingStorage,
                       linkageSection |-> linkageSection],
     procedureDivision |-> [usingParameters |-> usingParameters,
                            statements |-> statements]]

NoCond == [left |-> Undefined, operator |-> "", right |-> Undefined]
Cond(left, operator, right) == [left |-> left, operator |-> operator, right |-> right]

MoveStmt(source, target) ==
    [type |-> "MOVE", source |-> source, target |-> target, targetSlice |-> NoSlice]
MoveSlice(source, target, start, len) ==
    [type |-> "MOVE", source |-> source, target |-> target,
     targetSlice |-> [start |-> start, len |-> len]]
MathStmt(type, value, target) == [type |-> type, value |-> value, target |-> target]
ComputeStmt(target, expression) ==
    [type |-> "COMPUTE", target |-> target, expression |-> expression]
DisplayStmt(values) == [type |-> "DISPLAY", values |-> values]
IfStmt(condition, thenBody) ==
    [type |-> "IF", condition |-> condition, thenBody |-> thenBody,
     hasElse |-> FALSE, elseBody |-> <<>>]
IfElseStmt(condition, thenBody, elseBody) ==
    [type |-> "IF", condition |-> condition, thenBody |-> thenBody,
     hasElse |-> TRUE, elseBody |-> elseBody]
PerformUntil(until, body) ==
    [type |-> "PERFORM", body |-> body, until |-> until, times |-> Undefined]
PerformTimes(times, body) ==
    [type |-> "PERFORM", body |-> body, until |-> NoCond, times |-> times]
PerformBlock(body) ==
    [type |-> "PERFORM", body |-> body, until |-> NoCond, times |-> Undefined]
CallStmt(programName, using) ==
    [type |-> "CALL", programName |-> programName, using |-> using]
AcceptStmt(target) == [type |-> "ACCEPT", target |-> target]
StopRun == [type |-> "STOP_RUN"]
Goback == [type |-> "GOBACK"]
ExitProgram == [type |-> "EXIT_PROGRAM"]

Lit(n) == [type |-> "Literal", value |-> Num(n)]
Var(name) == [type |-> "Variable", name |-> name]
Unary(right) == [type |-> "Unary", right |-> right]
Binary(left, operator, right) ==
    [type |-> "Binary", left |-> left, operator |-> operator, right |-> right]

\* the truthiness JavaScript gives an optional string | number field
Truthy(v) ==
    CASE v.t = "undef" -> FALSE
      [] v.t = "nan" -> FALSE
      [] v.t = "num" -> v.n # 0
      [] v.t = "str" -> v.s # <<>>
      [] OTHER -> TRUE

(***************************************************************************)
(* The state of one Runtime instance and of the run in progress            *)
(***************************************************************************)
VARIABLES
    phase,              \* "idle", "running" (inside run) or "returned"
    ast,                \* the program handed to run
    programRepository,  \* upper-cased program id -> program
    callStack,          \* the frames, the current one last
    heap,               \* the VariableContext cells of the live frames
    nextFid,            \* identity of the next frame object
    output,             \* lines DISPLAY has pushed
    errors,             \* messages of the run
    isRunning,
    cics,               \* the CicsContext: commarea, condition handlers
    ctl,                \* the interpreter's own activations, innermost last
    debug,              \* the Debugger attached to the Runtime, if any
    wait,               \* the host callback the run awaits: input, screen
    nextTransaction,    \* what EXEC CICS RETURN TRANSID left for the host
    prep,               \* the call of Preprocessor.process in progress
    semantic,           \* the static fields of SemanticValidator
    app,                \* App: diagnostics, status and the run it scheduled
    peer,               \* the fields of the other Runtime instance
    storage,            \* VirtualDisk.storage, static: one for all instances,
                        \* and the instances whose statements have read it
    validator,          \* the call of Validator.validate: source and result
    parser,             \* the Parser: tokens, current, nesting, call stack
    lexer               \* the call of Lexer.tokenize: source and result

rtVars == <<phase, ast, programRepository, callStack, heap, nextFid, output,
            errors, isRunning, cics, ctl, debug, wait, nextTransaction>>

\* the front end before the semantic validation
frontVars == <<validator, parser, lexer>>

\* what the statement handlers that await nothing do not touch
hostVars == <<peer, storage, frontVars, prep, semantic, app, debug, wait, nextTransaction>>

NoProgram == Program(<<>>, <<>>, <<>>, <<>>, <<>>)

\* the number of the Runtime instance whose code is executing, of two
thisInstance == 3 - peer.instance

\* the screen is kept as the cells that differ from the blank a new or
\* cleared screen holds; ScreenSize is its number of cells
ScreenRows == 24
ScreenColumns == 80
ScreenSize == ScreenRows * ScreenColumns
clearScreen == EmptyMap
CicsContext ==
    [transId |-> <<"T", "X", "0", "1">>, commarea |-> <<>>, handlers |-> EmptyMap,
     screenBuffer |-> clearScreen]

\* the fields of a Debugger; attached is Runtime.debugger being set, and
\* resumeSignal is TRUE while the promise of onStatement is pending
Debugger(attached) ==
    [attached |-> attached, status |-> "STOPPED", breakpoints |-> {},
     resumeSignal |-> FALSE, mode |-> "RUN", targetStackDepth |-> -1]
NoDebugger == Debugger(FALSE)

\* on is the callback whose promise the run awaits ("none" when it awaits
\* no host callback); waitForScreenInput tells whether the Runtime was
\* constructed with that callback
Awaits(on, waitForScreenInput) ==
    [on |-> on, waitForScreenInput |-> waitForScreenInput]
\* nextTransaction = undefined
NoTransaction == [transId |-> <<>>, commarea |-> <<>>, defined |-> FALSE]

RuntimeInit ==
    /\ phase = "idle"
    /\ ast = NoProgram
    /\ programRepository = EmptyMap
    /\ callStack = <<>>
    /\ heap = <<>>
    /\ nextFid = 1
    /\ output = <<>>
    /\ errors = <<>>
    /\ isRunning = TRUE
    /\ cics = CicsContext
    /\ ctl = <<>>
    /\ debug = NoDebugger
    /\ wait = Awaits("none", TRUE)
    /\ nextTransaction = NoTransaction

Top == ctl[Len(ctl)]
Pop(s) == SubSeq(s, 1, Len(s) - 1)
Stmt == Top.stmts[Top.i]
\* executeStatements: i is the statement of the for loop, and seen tells
\* that the await of debugger.onStatement for it is over
Advance(c) == [c EXCEPT ![Len(c)].i = @ + 1, ![Len(c)].seen = FALSE]
StmtsFrame(stmts) == [k |-> "stmts", stmts |-> stmts, i |-> 1, seen |-> FALSE]

Frame(fid, programId, memory, linkage, base) ==
    [fid |-> fid, programId |-> programId, memory |-> memory,
     linkage |-> linkage, base |-> base]

\* callStack.pop(): the frame goes, and with it the cells it allocated
PopFrame(stack) == Pop(stack)
PopHeap(stack, h) == SubSeq(h, 1, stack[Len(stack)].base)

\* the catch clause of run: the message is recorded and run returns
AbendText == "IGZ9999S RUNTIME TERMINATED ABNORMALLY: "
Abend(msg) ==
    /\ errors' = Append(errors, AbendText \o msg)
    /\ ctl' = <<>>
    /\ phase' = "returned"

\* Runtime.registerProgram
registerProgram(repo, p) == MapSet(repo, toUpperCase(p.id), p)

DFHCOMMAREA == <<"D", "F", "H", "C", "O", "M", "M", "A", "R", "E", "A">>

\* executeProgram: the DFHCOMMAREA cell ca of the linkage takes the commarea
setCommarea(h, ca, commarea) ==
    SetRaw(h, ca, Str(substring(padEnd(commarea, h[ca].length), 0, h[ca].length)))
\* executeProgram once both sections are initialized (ws, lk)
newFrame(p, fid, commarea, ws, lk) ==
    IF ws.err # NoErr THEN [err |-> ws.err, frame |-> <<>>, heap |-> <<>>]
    ELSE IF lk.err # NoErr THEN [err |-> lk.err, frame |-> <<>>, heap |-> <<>>]
    ELSE [err |-> NoErr, frame |-> Frame(fid, p.id, ws.memory, lk.memory, 0),
          heap |-> IF MapHas(lk.memory, DFHCOMMAREA)
                   THEN setCommarea(lk.heap, lk.memory[DFHCOMMAREA], commarea)
                   ELSE lk.heap]
\* executeProgram: the linkage section is initialized after working storage
initializeLinkage(p, fid, commarea, ws) ==
    newFrame(p, fid, commarea, ws,
             initializeData(p.dataDivision.linkageSection, 1, EmptyMap, ws.heap))
\* Runtime.executeProgram up to the push of the frame
executeProgramFrame(p, stack, fid, commarea) ==
    IF Len(stack) >= MAX_STACK_DEPTH
    THEN [err |-> "IGZ0099S STACK OVERFLOW.", frame |-> <<>>, heap |-> <<>>]
    ELSE initializeLinkage(p, fid, commarea,
             initializeData(p.dataDivision.workingStorage, 1, EmptyMap, <<>>))

\* run: executeProgram(ast) pushes the frame r carries and starts on the
\* statements, or throws into the catch clause of run
runProgram(p, r) ==
    IF r.err # NoErr
    THEN /\ errors' = <<AbendText \o r.err>>
         /\ phase' = "returned"
         /\ ctl' = <<>>
         /\ callStack' = <<>>
         /\ heap' = <<>>
         /\ UNCHANGED nextFid
    ELSE /\ errors' = <<>>
         /\ phase' = "running"
         /\ callStack' = <<r.frame>>
         /\ heap' = r.heap
         /\ nextFid' = nextFid + 1
         /\ ctl' = <<[k |-> "program", fid |-> nextFid],
                    StmtsFrame(p.procedureDivision.statements)>>

\* Runtime.run(ast), to the first statement of the program
runtimeRun(p) ==
    /\ ast' = p
    /\ nextTransaction' = NoTransaction
    /\ output' = <<>>
    /\ isRunning' = TRUE
    /\ programRepository' = registerProgram(programRepository, p)
    /\ UNCHANGED cics
    /\ runProgram(p, executeProgramFrame(p, <<>>, nextFid, cics.commarea))
\* a host calls run on its Runtime
run(p) ==
    /\ phase = "idle"
    /\ runtimeRun(p)
    /\ UNCHANGED <<peer, storage, frontVars, prep, semantic, app, debug, wait>>

\* AtStatement without the wait for the debugger
AtStatementUnseen(types) ==
    /\ phase = "running"
    /\ ctl # <<>>
    /\ Top.k = "stmts"
    /\ Top.i <= Len(Top.stmts)
    /\ isRunning
    /\ callStack # <<>>
    /\ wait.on = "none"
    /\ Stmt.type \in types
\* AtStatement without the test of isRunning
AtStatementStopped(types) ==
    /\ phase = "running"
    /\ ctl # <<>>
    /\ Top.k = "stmts"
    /\ Top.i <= Len(Top.stmts)
    /\ callStack # <<>>
    /\ wait.on = "none"
    /\ debug.attached => Top.seen
    /\ Stmt.type \in types
\* executeStatements is at a statement it will execute
AtStatement(types) ==
    /\ phase = "running"
    /\ ctl # <<>>
    /\ Top.k = "stmts"
    /\ Top.i <= Len(Top.stmts)
    /\ isRunning
    /\ callStack # <<>>
    /\ wait.on = "none"
    /\ debug.attached => Top.seen
    /\ Stmt.type \in types

\* a handler that only reads and writes cells
HeapStep(r) ==
    IF r.err # NoErr
    THEN /\ Abend(r.err)
         /\ UNCHANGED <<ast, programRepository, callStack, heap, nextFid, output,
                        isRunning, cics>>
    ELSE /\ heap' = r.heap
         /\ ctl' = Advance(ctl)
         /\ UNCHANGED <<phase, ast, programRepository, callStack, nextFid, output,
                        errors, isRunning, cics>>

executeMove ==
    /\ AtStatement({"MOVE"})
    /\ HeapStep(handleMove(callStack, heap, Stmt))
    /\ UNCHANGED hostVars

executeMath ==
    /\ AtStatement({"ADD", "SUBTRACT", "MULTIPLY", "DIVIDE"})
    /\ HeapStep(handleMath(callStack, heap, Stmt))
    /\ UNCHANGED hostVars

executeCompute ==
    /\ AtStatement({"COMPUTE"})
    /\ HeapStep(handleCompute(callStack, heap, Stmt))
    /\ UNCHANGED hostVars

executeDisplay ==
    /\ AtStatement({"DISPLAY"})
    /\ LET line == handleDisplay(callStack, heap, Stmt.values, 1)
       IN  IF line.err # NoErr
           THEN /\ Abend(line.err)
                /\ UNCHANGED <<ast, programRepository, callStack, heap, nextFid,
                               output, isRunning, cics>>
           ELSE /\ output' = Append(output, line.v.s)
                /\ ctl' = Advance(ctl)
                /\ UNCHANGED <<phase, ast, programRepository, callStack, heap,
                               nextFid, errors, isRunning, cics>>
    /\ UNCHANGED hostVars

\* Runtime.handleIf
handleIf ==
    /\ AtStatement({"IF"})
    /\ LET c == evaluateCondition(callStack, heap, Stmt.condition)
       IN  IF c.err # NoErr
           THEN /\ Abend(c.err)
                /\ UNCHANGED <<ast, programRepository, callStack, heap, nextFid,
                               output, isRunning, cics>>
           ELSE /\ ctl' = IF c.v = Num(1)
                          THEN Append(Advance(ctl), StmtsFrame(Stmt.thenBody))
                          ELSE IF Stmt.hasElse
                               THEN Append(Advance(ctl), StmtsFrame(Stmt.elseBody))
                               ELSE Advance(ctl)
                /\ UNCHANGED <<phase, ast, programRepository, callStack, heap,
                               nextFid, output, errors, isRunning, cics>>
    /\ UNCHANGED hostVars

\* Runtime.handlePerform, entry: which of the three forms, and the count
handlePerform ==
    /\ AtStatement({"PERFORM"})
    /\ IF Stmt.until # NoCond
       THEN /\ ctl' = Append(Advance(ctl),
                         [k |-> "perform", form |-> "until", stmt |-> Stmt,
                          iterations |-> 0, i |-> 0, count |-> Num(0)])
            /\ UNCHANGED <<phase, errors>>
       ELSE IF Truthy(Stmt.times)
       THEN LET count == resolveValue(callStack, heap, Stmt.times)
            IN  IF count.err # NoErr
                THEN Abend(count.err)
                ELSE /\ ctl' = Append(Advance(ctl),
                                  [k |-> "perform", form |-> "times", stmt |-> Stmt,
                                   iterations |-> 0, i |-> 0,
                                   count |-> Number(count.v)])
                     /\ UNCHANGED <<phase, errors>>
       ELSE /\ ctl' = Append(Advance(ctl), StmtsFrame(Stmt.body))
            /\ UNCHANGED <<phase, errors>>
    /\ UNCHANGED <<ast, programRepository, callStack, heap, nextFid, output,
                   isRunning, cics>>
    /\ UNCHANGED hostVars

\* Runtime.handlePerform, the loop head of the UNTIL and TIMES forms
performLoop ==
    /\ phase = "running"
    /\ ctl # <<>>
    /\ Top.k = "perform"
    /\ IF Top.form = "until"
       THEN LET c == evaluateCondition(callStack, heap, Top.stmt.until)
            IN  IF c.err # NoErr THEN Abend(c.err)
                ELSE IF c.v = Num(0) /\ isRunning
                THEN IF Top.iterations >= MAX_LOOP_ITERATIONS
                     THEN Abend("IGZ0099S INFINITE LOOP.")
                     ELSE /\ ctl' = Append(
                                 [ctl EXCEPT ![Len(ctl)].iterations = @ + 1],
                                 StmtsFrame(Top.stmt.body))
                          /\ UNCHANGED <<phase, errors>>
                ELSE /\ ctl' = Pop(ctl)
                     /\ UNCHANGED <<phase, errors>>
       ELSE IF NumGreater(Top.count, Num(Top.i))
            THEN IF Top.iterations >= MAX_LOOP_ITERATIONS \/ ~isRunning
                 THEN /\ ctl' = Pop(ctl)
                      /\ UNCHANGED <<phase, errors>>
                 ELSE /\ ctl' = Append(
                             [ctl EXCEPT ![Len(ctl)].iterations = @ + 1,
                                         ![Len(ctl)].i = @ + 1],
                             StmtsFrame(Top.stmt.body))
                      /\ UNCHANGED <<phase, errors>>
            ELSE /\ ctl' = Pop(ctl)
                 /\ UNCHANGED <<phase, errors>>
    /\ UNCHANGED <<ast, programRepository, callStack, heap, nextFid, output,
                   isRunning, cics>>
    /\ UNCHANGED hostVars

CallDepth(c) == Cardinality({j \in 1..Len(c) : c[j].k = "call"})

\* bindLinkage taking the arguments from the last to the first
RECURSIVE bindLinkageReversed(_, _, _, _, _)
bindLinkageReversed(stack, using, params, i, linkage) ==
    IF i > Len(using) THEN [err |-> NoErr, linkage |-> linkage]
    ELSE LET id == getVariable(stack, using[Len(using) + 1 - i])
         IN  IF id = 0 THEN [err |-> getVariableError(stack), linkage |-> linkage]
             ELSE bindLinkageReversed(stack, using, params, i + 1,
                                      MapSet(linkage, params[i], id))
\* the forEach of handleCall: parameter i of the callee is bound to the cell
\* of argument i of the caller
RECURSIVE bindLinkage(_, _, _, _, _)
bindLinkage(stack, using, params, i, linkage) ==
    IF i > Len(using) THEN [err |-> NoErr, linkage |-> linkage]
    ELSE LET id == getVariable(stack, using[i])
         IN  IF id = 0 THEN [err |-> getVariableError(stack), linkage |-> linkage]
             ELSE bindLinkage(stack, using, params, i + 1,
                              MapSet(linkage, params[i], id))

\* handleCall throws: no frame, the heap as it was
callFails(msg, h) == [err |-> msg, frame |-> <<>>, heap |-> h, ast |-> NoProgram]

\* handleCall: the new frame, with the linkage bound and the working storage
\* ws of the callee
calleeFrame(h, targetAST, fid, linkage, ws) ==
    IF ws.err # NoErr THEN callFails(ws.err, h)
    ELSE [err |-> NoErr,
          frame |-> Frame(fid, targetAST.id, ws.memory, linkage, Len(h)),
          heap |-> ws.heap, ast |-> targetAST]
\* handleCall: the linkage map is filled (bound) before the data is initialized
linkageBound(h, targetAST, fid, bound) ==
    IF bound.err # NoErr THEN callFails(bound.err, h)
    ELSE calleeFrame(h, targetAST, fid, bound.linkage,
             initializeData(targetAST.dataDivision.workingStorage, 1, EmptyMap, h))
\* handleCall on the program found: the parameter check and the binding are
\* made only if the CALL has a USING
callTarget(stack, h, stmt, fid, targetAST) ==
    IF Len(stmt.using) > 0
    THEN IF Len(targetAST.procedureDivision.usingParameters) # Len(stmt.using)
         THEN callFails("IGZ0003S PARAMETER MISMATCH.", h)
         ELSE linkageBound(h, targetAST, fid,
                  bindLinkage(stack, stmt.using,
                              targetAST.procedureDivision.usingParameters, 1,
                              EmptyMap))
    ELSE linkageBound(h, targetAST, fid, [err |-> NoErr, linkage |-> EmptyMap])
\* handleCall once the program name is known
callNamed(stack, h, repo, stmt, fid, progName) ==
    IF ~MapHas(repo, progName)
    THEN callFails("IGZ0002S CALL TO UNDEFINED PROGRAM", h)
    ELSE callTarget(stack, h, stmt, fid, repo[progName])
\* handleCall: the name is that of a variable (cell byName) holding it
callByVariable(stack, h, repo, stmt, fid, byName) ==
    IF byName = 0 THEN callFails(getVariableError(stack), h)
    ELSE callNamed(stack, h, repo, stmt, fid,
                   toUpperCase(trim(String(h[byName].rawValue))))
\* Runtime.handleCall up to the push of the frame
handleCallFrame(stack, h, repo, stmt, fid) ==
    IF stmt.programName.t = "num"
    THEN callNamed(stack, h, repo, stmt, fid, toUpperCase(String(stmt.programName)))
    ELSE IF startsWithQuote(stmt.programName.s)
    THEN callNamed(stack, h, repo, stmt, fid,
                   toUpperCase(stripQuotes(stmt.programName.s)))
    ELSE callByVariable(stack, h, repo, stmt, fid,
                        getVariable(stack, stmt.programName.s))

\* handleCall: callStack.push(newFrame), then executeStatements on the callee
pushCallee(r) ==
    IF r.err # NoErr
    THEN /\ Abend(r.err)
         /\ UNCHANGED <<callStack, heap, nextFid>>
    ELSE /\ callStack' = Append(callStack, r.frame)
         /\ heap' = r.heap
         /\ nextFid' = nextFid + 1
         /\ ctl' = Advance(ctl) \o
                   <<[k |-> "call", fid |-> nextFid],
                     StmtsFrame(r.ast.procedureDivision.statements)>>
         /\ UNCHANGED <<phase, errors>>

\* Runtime.handleCall: the callee's frame is pushed and its statements start
handleCall ==
    /\ AtStatement({"CALL"})
    /\ IF CallDepth(ctl) >= MaxNativeCalls
       THEN /\ Abend("Maximum call stack size exceeded")
            /\ UNCHANGED <<callStack, heap, nextFid>>
       ELSE pushCallee(handleCallFrame(callStack, heap, programRepository, Stmt,
                                       nextFid))
    /\ UNCHANGED <<ast, programRepository, output, isRunning, cics>>
    /\ UNCHANGED hostVars

\* handleCall and executeProgram ending without the pop of their frame
returnsKeepingTheFrame(fid) == UNCHANGED <<callStack, heap>>
\* the pop that ends handleCall and executeProgram: only if the frame they
\* pushed is still the current one
popIfCurrent(fid) ==
    IF callStack # <<>> /\ callStack[Len(callStack)].fid = fid
    THEN /\ callStack' = PopFrame(callStack)
         /\ heap' = PopHeap(callStack, heap)
    ELSE UNCHANGED <<callStack, heap>>

callReturn ==
    /\ phase = "running"
    /\ ctl # <<>>
    /\ Top.k = "call"
    /\ popIfCurrent(Top.fid)
    /\ ctl' = Pop(ctl)
    /\ UNCHANGED <<phase, ast, programRepository, nextFid, output, errors,
                   isRunning, cics>>
    /\ UNCHANGED hostVars

\* executeProgram returns to run, which returns the result
programReturn ==
    /\ phase = "running"
    /\ ctl # <<>>
    /\ Top.k = "program"
    /\ popIfCurrent(Top.fid)
    /\ ctl' = Pop(ctl)
    /\ phase' = "returned"
    /\ UNCHANGED <<ast, programRepository, nextFid, output, errors, isRunning, cics>>
    /\ UNCHANGED hostVars

\* case 'EXIT_PROGRAM'
executeExitProgram ==
    /\ AtStatement({"EXIT_PROGRAM"})
    /\ IF Len(callStack) > 1
       THEN /\ callStack' = PopFrame(callStack)
            /\ heap' = PopHeap(callStack, heap)
       ELSE UNCHANGED <<callStack, heap>>
    /\ ctl' = Advance(ctl)
    /\ UNCHANGED <<phase, ast, programRepository, nextFid, output, errors,
                   isRunning, cics>>
    /\ UNCHANGED hostVars

\* case 'GOBACK'
executeGoback ==
    /\ AtStatement({"GOBACK"})
    /\ IF Len(callStack) > 1
       THEN /\ callStack' = PopFrame(callStack)
            /\ heap' = PopHeap(callStack, heap)
            /\ UNCHANGED isRunning
       ELSE /\ isRunning' = FALSE
            /\ UNCHANGED <<callStack, heap>>
    /\ ctl' = Advance(ctl)
    /\ UNCHANGED <<phase, ast, programRepository, nextFid, output, errors, cics>>
    /\ UNCHANGED hostVars

\* case 'STOP_RUN'
executeStopRun ==
    /\ AtStatement({"STOP_RUN"})
    /\ isRunning' = FALSE
    /\ ctl' = Advance(ctl)
    /\ UNCHANGED <<phase, ast, programRepository, callStack, heap, nextFid,
                   output, errors, cics>>
    /\ UNCHANGED hostVars

\* executeStatements leaves its loop: the list is exhausted, or the run was
\* stopped, or no frame is left
statementsDone ==
    /\ phase = "running"
    /\ ctl # <<>>
    /\ Top.k = "stmts"
    /\ (Top.i > Len(Top.stmts) \/ ~isRunning \/ callStack = <<>>)
    /\ ctl' = Pop(ctl)
    /\ UNCHANGED <<phase, ast, programRepository, callStack, heap, nextFid,
                   output, errors, isRunning, cics>>
    /\ UNCHANGED hostVars
\* the host registers a program before a run (Runtime.registerProgram)
hostRegisterProgram(p) ==
    /\ phase = "idle"
    /\ ~MapHas(programRepository, toUpperCase(p.id))
    /\ programRepository' = registerProgram(programRepository, p)
    /\ UNCHANGED <<phase, ast, callStack, heap, nextFid, output, errors,
                   isRunning, cics, ctl>>
    /\ UNCHANGED hostVars

(***************************************************************************)
(* ACCEPT.  handleAccept awaits the inputHandler of the host; the run is   *)
(* resumed by the value the host resolves the promise with.                *)
(***************************************************************************)
Null == [t |-> "null", n |-> 0, d |-> 1, s |-> <<>>]

\* Runtime.handleAccept up to its await
handleAccept ==
    /\ AtStatement({"ACCEPT"})
    /\ IF getVariable(callStack, Stmt.target) = 0
       THEN /\ Abend(getVariableError(callStack))
            /\ UNCHANGED wait
       ELSE /\ wait' = [wait EXCEPT !.on = "input"]
            /\ UNCHANGED <<phase, errors, ctl>>
    /\ UNCHANGED <<ast, programRepository, callStack, heap, nextFid, output,
                   isRunning, cics, nextTransaction>>
    /\ UNCHANGED <<peer, storage, frontVars, prep, semantic, app, debug>>

\* handleAccept after its await: the MOVE it builds from the value
acceptMove(val, target) == MoveStmt(val, target)

\* the host resolves the promise of inputHandler with val (App:
\* handleInputModalSubmit), and handleAccept goes on from its await
handleInputModalSubmit(val) ==
    /\ phase = "running"
    /\ wait.on = "input"
    /\ wait' = [wait EXCEPT !.on = "none"]
    /\ IF val # Null
       THEN LET r == handleMove(callStack, heap, acceptMove(val, Stmt.target))
            IN  /\ output' = Append(output, <<">", " ">> \o val.s)
                /\ IF r.err # NoErr
                   THEN /\ Abend(r.err)
                        /\ UNCHANGED heap
                   ELSE /\ heap' = r.heap
                        /\ ctl' = Advance(ctl)
                        /\ UNCHANGED <<phase, errors>>
       ELSE /\ ctl' = Advance(ctl)
            /\ UNCHANGED <<phase, errors, heap, output>>
    /\ UNCHANGED <<ast, programRepository, callStack, nextFid, isRunning, cics,
                   nextTransaction>>
    /\ UNCHANGED <<peer, storage, frontVars, prep, semantic, app, debug>>

(***************************************************************************)
(* EXEC CICS.  The parameters of a command are a function from the keyword *)
(* to its value, a text.                                                   *)
(***************************************************************************)
ExecCics(command, params) ==
    [type |-> "EXEC_CICS", command |-> command, params |-> params]
BMSField(name, row, col, length) ==
    [name |-> name, row |-> row, col |-> col, length |-> length]
BMSMapDefinition(mapsetName, mapName, fields) ==
    [mapsetName |-> mapsetName, mapName |-> mapName, fields |-> fields]
\* a program whose Data Division has a map section
WithMaps(p, maps) ==
    [p EXCEPT !.dataDivision = [mapSection |-> maps] @@ @]

\* Runtime.resolveName
resolveName(raw) ==
    IF raw # <<>> /\ ((raw[1] = Quote /\ raw[Len(raw)] = Quote)
                      \/ (raw[1] = "'" /\ raw[Len(raw)] = "'"))
    THEN SubSeq(raw, 2, Len(raw) - 1)
    ELSE raw

\* the character of a screen cell
screenChar(screen, index) == IF index \in DOMAIN screen THEN screen[index] ELSE " "
\* CicsContext.writeToScreen
writeToScreen(screen, row, col, text) ==
    LET index == (row - 1) * ScreenColumns + (col - 1)
        written == {j \in index..(index + Len(text) - 1) : j < ScreenSize}
        char(j) == IF j \in written THEN text[j - index + 1] ELSE screen[j]
    IN  [j \in {x \in (DOMAIN screen) \cup written : char(x) # " "} |-> char(j)]
\* CicsContext.readFromScreen
readFromScreen(screen, row, col, length) ==
    LET index == (row - 1) * ScreenColumns + (col - 1)
        read == {j \in index..(index + length - 1) : j < ScreenSize}
    IN  [k \in 1..Cardinality(read) |-> screenChar(screen, index + k - 1)]

\* the map definition cicsSendMap and cicsReceiveMap look for, in the
\* program of the current frame
NoMap == [found |-> FALSE, fields |-> <<>>]
findMap(repo, stack, mapName, mapset) ==
    LET currentId == toUpperCase(stack[Len(stack)].programId)
        maps == IF MapHas(repo, currentId)
                   /\ "mapSection" \in DOMAIN repo[currentId].dataDivision
                THEN repo[currentId].dataDivision.mapSection
                ELSE <<>>
        found == {j \in 1..Len(maps) : /\ maps[j].mapName = mapName
                                       /\ maps[j].mapsetName = mapset}
    IN  IF found = {} THEN NoMap
        ELSE [found |-> TRUE,
              fields |-> maps[CHOOSE j \in found : \A x \in found : j <= x].fields]

\* cicsSendMap: the text of a field is the value of the variable of its
\* name, or else its initial text, or else nothing
fieldText(stack, h, field) ==
    IF getVariable(stack, field.name) # 0
    THEN String(h[getVariable(stack, field.name)].rawValue)
    ELSE IF "initial" \in DOMAIN field THEN field.initial ELSE <<>>
\* cicsSendMap, the loop over the fields from the i-th on
RECURSIVE renderFields(_, _, _, _, _)
renderFields(stack, h, screen, fields, i) ==
    IF i > Len(fields) THEN screen
    ELSE renderFields(stack, h,
             writeToScreen(screen, fields[i].row, fields[i].col,
                           padEnd(fieldText(stack, h, fields[i]), fields[i].length)),
             fields, i + 1)

\* cicsReceiveMap, the body of the try for one field whose variable is
\* cell id: what applyPicRules throws is caught and the cell is left
receiveField(h, id, val) ==
    LET r == applyPicRules(Str(val), h[id].picType, h[id].length)
    IN  IF r.err # NoErr THEN h ELSE SetRaw(h, id, r.v)
\* cicsReceiveMap, the loop over the fields from the i-th on; a field with
\* no variable of its name is passed over
RECURSIVE receiveFields(_, _, _, _, _)
receiveFields(stack, h, screen, fields, i) ==
    IF i > Len(fields) THEN h
    ELSE receiveFields(stack,
             IF getVariable(stack, fields[i].name) = 0 THEN h
             ELSE receiveField(h, getVariable(stack, fields[i].name),
                      readFromScreen(screen, fields[i].row, fields[i].col,
                                     fields[i].length)),
             screen, fields, i + 1)

\* the files of VirtualDisk: customers.vsam is a Map from key to record,
\* input.txt an array of records
FileName(stem, ext) == stem \o <<".">> \o ext
customersVsam ==
    FileName(<<"c", "u", "s", "t", "o", "m", "e", "r", "s">>, <<"v", "s", "a", "m">>)
inputTxt == FileName(<<"i", "n", "p", "u", "t">>, <<"t", "x", "t">>)
customer(key, name) == padEnd(key \o name, 25)
VirtualDisk ==
    MapSet(MapSet(EmptyMap, inputTxt, [isMap |-> FALSE, records |-> EmptyMap]),
           customersVsam,
           [isMap |-> TRUE,
            records |->
                MapSet(MapSet(EmptyMap, <<"0", "0", "0", "0", "1">>,
                              customer(<<"0", "0", "0", "0", "1">>,
                                       <<"A", "L", "I", "C", "E">>)),
                       <<"0", "0", "0", "0", "2">>,
                       customer(<<"0", "0", "0", "0", "2">>, <<"B", "O", "B">>))])

\* what a CICS command leaves: the error it throws, the heap, and the
\* condition it triggers ("" if none)
CicsResult(err, h, condition) == [err |-> err, heap |-> h, condition |-> condition]

\* cicsFileRead once the file is known to exist
readRecord(stack, h, file, keyVar, intoVar) ==
    IF keyVar = 0 THEN CicsResult(getVariableError(stack), h, "")
    ELSE IF ~file.isMap THEN CicsResult("map.has is not a function", h, "")
    ELSE IF MapHas(file.records, trim(String(h[keyVar].rawValue)))
    THEN IF intoVar = 0 THEN CicsResult(getVariableError(stack), h, "")
         ELSE CicsResult(NoErr,
                  SetRaw(h, intoVar,
                      Str(substring(
                          padEnd(file.records[trim(String(h[keyVar].rawValue))],
                                 h[intoVar].length),
                          0, h[intoVar].length))),
                  "")
    ELSE CicsResult(NoErr, h, "NOTFND")
\* cicsFileRead throwing for a file that does not exist
cicsFileReadThrowing(stack, h, params) ==
    IF ~MapHas(storage.files, resolveName(params.FILE))
    THEN CicsResult("FILE NOT FOUND", h, "")
    ELSE readRecord(stack, h, storage.files[resolveName(params.FILE)],
                    getVariable(stack, params.RIDFLD),
                    getVariable(stack, params.INTO))
\* Runtime.cicsFileRead
cicsFileRead(stack, h, params) ==
    IF ~MapHas(storage.files, resolveName(params.FILE))
    THEN CicsResult(NoErr, h, "NOTFND")
    ELSE readRecord(stack, h, storage.files[resolveName(params.FILE)],
                    getVariable(stack, params.RIDFLD),
                    getVariable(stack, params.INTO))

\* Runtime.cicsHandleCondition: every keyword of the command is a condition
\* and its value the label
cicsHandleCondition(handlers, params) ==
    [c \in (DOMAIN handlers) \cup (DOMAIN params) |->
        IF c \in DOMAIN params THEN params[c] ELSE handlers[c]]

\* Runtime.triggerHandleCondition logging every condition, registered or not
triggerHandleConditionLogged(condition) ==
    /\ errors' = Append(errors, "CICS HANDLE CONDITION TRIGGERED: " \o condition)
    /\ ctl' = Advance(ctl)
    /\ UNCHANGED phase
\* Runtime.triggerHandleCondition: with a label registered the condition is
\* logged and the statement ends normally, else it is thrown
triggerHandleCondition(condition) ==
    IF MapHas(cics.handlers, condition) /\ cics.handlers[condition] # <<>>
    THEN /\ errors' = Append(errors, "CICS HANDLE CONDITION TRIGGERED: " \o condition)
         /\ ctl' = Advance(ctl)
         /\ UNCHANGED phase
    ELSE Abend("CICS CONDITION '" \o condition \o "' NOT HANDLED.")

\* cicsReturn: the next transaction, if TRANSID is given
returnTransaction(stack, h, params) ==
    IF "TRANSID" \in DOMAIN params
    THEN IF "COMMAREA" \in DOMAIN params
         THEN IF getVariable(stack, params.COMMAREA) = 0
              THEN [err |-> getVariableError(stack), v |-> NoTransaction]
              ELSE Ok([transId |-> resolveName(params.TRANSID),
                       commarea |->
                           String(h[getVariable(stack, params.COMMAREA)].rawValue),
                       defined |-> TRUE])
         ELSE Ok([transId |-> resolveName(params.TRANSID), commarea |-> <<>>,
                  defined |-> TRUE])
    ELSE Ok(nextTransaction)

\* cicsLink: the CALL statement it hands to handleCall
linkCall(params) == CallStmt(Str(<<Quote>> \o resolveName(params.PROGRAM) \o <<Quote>>), <<>>)

\* Runtime.handleCics, with the command it dispatches to
handleCics ==
    /\ AtStatement({"EXEC_CICS"})
    /\ CASE Stmt.command = "HANDLE_CONDITION" ->
              /\ cics' = [cics EXCEPT
                             !.handlers = cicsHandleCondition(@, Stmt.params)]
              /\ ctl' = Advance(ctl)
              /\ UNCHANGED <<phase, errors, callStack, heap, nextFid, isRunning,
                             nextTransaction, wait>>
         [] Stmt.command = "READ" ->
              LET r == cicsFileRead(callStack, heap, Stmt.params)
              IN  /\ IF r.err # NoErr THEN Abend(r.err)
                     ELSE IF r.condition # "" THEN triggerHandleCondition(r.condition)
                     ELSE /\ ctl' = Advance(ctl)
                          /\ UNCHANGED <<phase, errors>>
                  /\ heap' = r.heap
                  /\ UNCHANGED <<callStack, nextFid, isRunning, cics,
                                 nextTransaction, wait>>
         [] Stmt.command = "RETURN" ->
              LET r == returnTransaction(callStack, heap, Stmt.params)
              IN  /\ IF r.err # NoErr
                     THEN /\ Abend(r.err)
                          /\ UNCHANGED <<nextTransaction, isRunning>>
                     ELSE /\ nextTransaction' = r.v
                          /\ isRunning' = FALSE
                          /\ ctl' = Advance(ctl)
                          /\ UNCHANGED <<phase, errors>>
                  /\ UNCHANGED <<callStack, heap, nextFid, cics, wait>>
         [] Stmt.command = "LINK" ->
              /\ IF CallDepth(ctl) >= MaxNativeCalls
                 THEN /\ Abend("Maximum call stack size exceeded")
                      /\ UNCHANGED <<callStack, heap, nextFid>>
                 ELSE pushCallee(handleCallFrame(callStack, heap, programRepository,
                                                 linkCall(Stmt.params), nextFid))
              /\ UNCHANGED <<isRunning, cics, nextTransaction, wait>>
         [] Stmt.command = "SEND_MAP" ->
              LET mapDef == findMap(programRepository, callStack,
                                    resolveName(Stmt.params.MAP),
                                    resolveName(Stmt.params.MAPSET))
              IN  /\ IF ~mapDef.found
                     THEN /\ Abend("MAP '")
                          /\ UNCHANGED cics
                     ELSE /\ cics' = [cics EXCEPT !.screenBuffer =
                                         renderFields(callStack, heap, clearScreen,
                                                      mapDef.fields, 1)]
                          /\ ctl' = Advance(ctl)
                          /\ UNCHANGED <<phase, errors>>
                  /\ UNCHANGED <<callStack, heap, nextFid, isRunning,
                                 nextTransaction, wait>>
         [] Stmt.command = "RECEIVE_MAP" ->
              LET mapDef == findMap(programRepository, callStack,
                                    resolveName(Stmt.params.MAP),
                                    resolveName(Stmt.params.MAPSET))
              IN  /\ IF ~mapDef.found
                     THEN /\ Abend("MAP '")
                          /\ UNCHANGED <<heap, wait>>
                     ELSE IF wait.waitForScreenInput
                     THEN /\ wait' = [wait EXCEPT !.on = "screen"]
                          /\ UNCHANGED <<phase, errors, ctl, heap>>
                     ELSE /\ heap' = receiveFields(callStack, heap, cics.screenBuffer,
                                                   mapDef.fields, 1)
                          /\ ctl' = Advance(ctl)
                          /\ UNCHANGED <<phase, errors, wait>>
                  /\ UNCHANGED <<callStack, nextFid, isRunning, cics,
                                 nextTransaction>>
         [] OTHER ->
              /\ Abend("CICS COMMAND '")
              /\ UNCHANGED <<callStack, heap, nextFid, isRunning, cics,
                             nextTransaction, wait>>
    /\ storage' = IF Stmt.command = "READ"
                  THEN [storage EXCEPT !.readBy = @ \cup {thisInstance}]
                  ELSE storage
    /\ UNCHANGED <<ast, programRepository, output>>
    /\ UNCHANGED <<peer, frontVars, prep, semantic, app, debug>>

\* App.handleCicsInputSubmit(finalBuffer): the screen of the terminal is
\* copied into the buffer of the CicsContext and the promise of
\* waitForScreenInput is resolved; cicsReceiveMap goes on from its await
handleCicsInputSubmit(finalBuffer) ==
    /\ phase = "running"
    /\ wait.on = "screen"
    /\ wait' = [wait EXCEPT !.on = "none"]
    /\ cics' = [cics EXCEPT !.screenBuffer = finalBuffer]
    /\ heap' = receiveFields(callStack, heap, finalBuffer,
                   findMap(programRepository, callStack,
                           resolveName(Stmt.params.MAP),
                           resolveName(Stmt.params.MAPSET)).fields, 1)
    /\ ctl' = Advance(ctl)
    /\ UNCHANGED <<phase, ast, programRepository, callStack, nextFid, output,
                   errors, isRunning, nextTransaction>>
    /\ UNCHANGED <<peer, storage, frontVars, prep, semantic, app, debug>>

(***************************************************************************)
(* The Debugger.  executeStatements awaits debugger.onStatement before     *)
(* each statement; the promise it returns stays pending while the adapter  *)
(* is suspended, and resume resolves it.                                   *)
(***************************************************************************)
\* a statement node with the line the parser recorded
AtLine(stmt, line) == [line |-> line] @@ stmt
\* stmt.line || 0
stmtLine(stmt) == IF "line" \in DOMAIN stmt THEN stmt.line ELSE 0

\* Debugger.checkBreakConditions: whether to break, and the target depth
\* it leaves
Break(shouldBreak, targetStackDepth) ==
    [shouldBreak |-> shouldBreak, targetStackDepth |-> targetStackDepth]
\* checkBreakConditions without the look at the breakpoints
checkBreakConditionsNoBreakpoints(d, stmt, depth) ==
    IF d.status = "PAUSED" THEN Break(TRUE, d.targetStackDepth)
    ELSE IF d.mode = "STEP" THEN Break(TRUE, d.targetStackDepth)
    ELSE IF d.mode = "NEXT"
    THEN IF d.targetStackDepth = -1 THEN Break(FALSE, depth)
         ELSE Break(depth <= d.targetStackDepth, d.targetStackDepth)
    ELSE Break(FALSE, d.targetStackDepth)
checkBreakConditions(d, stmt, depth) ==
    IF d.status = "PAUSED" THEN Break(TRUE, d.targetStackDepth)
    ELSE IF stmtLine(stmt) > 0 /\ stmtLine(stmt) \in d.breakpoints
    THEN Break(TRUE, d.targetStackDepth)
    ELSE IF d.mode = "STEP" THEN Break(TRUE, d.targetStackDepth)
    ELSE IF d.mode = "NEXT"
    THEN IF d.targetStackDepth = -1 THEN Break(FALSE, depth)
         ELSE Break(depth <= d.targetStackDepth, d.targetStackDepth)
    ELSE Break(FALSE, d.targetStackDepth)

\* executeStatements is at a statement for which it has not yet called the
\* debugger
BeforeStatement ==
    /\ phase = "running"
    /\ ctl # <<>>
    /\ Top.k = "stmts"
    /\ Top.i <= Len(Top.stmts)
    /\ isRunning
    /\ callStack # <<>>
    /\ wait.on = "none"
    /\ debug.attached
    /\ ~Top.seen
    /\ ~debug.resumeSignal

\* the promise of onStatement is resolved: executeStatements goes on to
\* executeStatement
Resolved(c) == [c EXCEPT ![Len(c)].seen = TRUE]

\* Debugger.onStatement, called by executeStatements
onStatement ==
    /\ BeforeStatement
    /\ LET b == checkBreakConditions(debug, Stmt, Len(callStack))
       IN  IF b.shouldBreak
           THEN /\ debug' = [debug EXCEPT !.status = "PAUSED",
                                          !.resumeSignal = TRUE,
                                          !.targetStackDepth = b.targetStackDepth]
                /\ UNCHANGED ctl
           ELSE /\ debug' = [debug EXCEPT !.targetStackDepth = b.targetStackDepth]
                /\ ctl' = Resolved(ctl)
    /\ UNCHANGED <<phase, ast, programRepository, callStack, heap, nextFid, output,
                   errors, isRunning, cics, wait, nextTransaction>>
    /\ UNCHANGED <<peer, storage, frontVars, prep, semantic, app>>

\* the host gets its turn (a click on a button of the debugger) only while
\* no run is executing: before a run, after it, or while it awaits
HostTurn == phase # "running" \/ debug.resumeSignal \/ wait.on # "none"

\* Debugger.resume, after the mode was set
resume(mode, targetStackDepth) ==
    /\ debug.attached
    /\ HostTurn
    /\ debug' = [debug EXCEPT !.mode = mode, !.targetStackDepth = targetStackDepth,
                              !.status = "RUNNING", !.resumeSignal = FALSE]
    /\ ctl' = IF debug.resumeSignal THEN Resolved(ctl) ELSE ctl
    /\ UNCHANGED <<phase, ast, programRepository, callStack, heap, nextFid, output,
                   errors, isRunning, cics, wait, nextTransaction>>
    /\ UNCHANGED <<peer, storage, frontVars, prep, semantic, app>>
\* Debugger.step
step == resume("STEP", debug.targetStackDepth)
\* Debugger.next
next == resume("NEXT", -1)
\* Debugger.continue
continue == resume("RUN", debug.targetStackDepth)

\* Debugger.pause
pause ==
    /\ debug.attached
    /\ HostTurn
    /\ debug.status # "PAUSED"
    /\ debug' = [debug EXCEPT !.status = "PAUSED"]
    /\ UNCHANGED <<phase, ast, programRepository, callStack, heap, nextFid, output,
                   errors, isRunning, cics, ctl, wait, nextTransaction>>
    /\ UNCHANGED <<peer, storage, frontVars, prep, semantic, app>>

\* Debugger.toggleBreakpoint
toggleBreakpoint(line) ==
    /\ debug.attached
    /\ HostTurn
    /\ debug' = [debug EXCEPT !.breakpoints = IF line \in @ THEN @ \ {line}
                                              ELSE @ \cup {line}]
    /\ UNCHANGED <<phase, ast, programRepository, callStack, heap, nextFid, output,
                   errors, isRunning, cics, ctl, wait, nextTransaction>>
    /\ UNCHANGED <<peer, storage, frontVars, prep, semantic, app>>

\* Runtime.attachDebugger with a new Debugger, before a run
attachDebugger ==
    /\ phase = "idle"
    /\ ~debug.attached
    /\ debug' = Debugger(TRUE)
    /\ UNCHANGED <<phase, ast, programRepository, callStack, heap, nextFid, output,
                   errors, isRunning, cics, ctl, wait, nextTransaction>>
    /\ UNCHANGED <<peer, storage, frontVars, prep, semantic, app>>

\* run is called again on a Runtime whose earlier run has returned
runAgain(p) ==
    /\ phase = "returned"
    /\ nextFid <= MaxFrames
    /\ runtimeRun(p)
    /\ UNCHANGED <<peer, storage, frontVars, prep, semantic, app, debug, wait>>

(***************************************************************************)
(* The COPY Preprocessor (Preprocessor.process).  A text is a sequence of  *)
(* characters; process splits the source at the line feeds and joins the   *)
(* lines again for its result.                                             *)
(***************************************************************************)
MAX_LOOPS == 100

LF == "\n"
\* String.prototype.split('\n')
RECURSIVE split(_)
split(s) ==
    IF \E k \in 1..Len(s) : s[k] = LF
    THEN LET k == CHOOSE k \in 1..Len(s) : s[k] = LF /\ \A j \in 1..(k - 1) : s[j] # LF
         IN  <<SubSeq(s, 1, k - 1)>> \o split(SubSeq(s, k + 1, Len(s)))
    ELSE <<s>>
\* Array.prototype.join('\n')
RECURSIVE joinFrom(_, _, _)
joinFrom(lines, lo, hi) ==
    IF lo > hi THEN <<>>
    ELSE IF lo = hi THEN lines[lo]
    ELSE joinFrom(lines, lo, (lo + hi) \div 2) \o <<LF>>
         \o joinFrom(lines, ((lo + hi) \div 2) + 1, hi)
join(lines) == joinFrom(lines, 1, Len(lines))

\* sub occurs in s at the 0-based offset k
occursAt(s, sub, k) == k + Len(sub) <= Len(s) /\ SubSeq(s, k + 1, k + Len(sub)) = sub
\* String.prototype.indexOf(sub, from): the first offset from `from` on, or -1
indexOfFrom(s, sub, from) ==
    IF \E k \in from..Len(s) : occursAt(s, sub, k)
    THEN CHOOSE k \in from..Len(s) :
             occursAt(s, sub, k) /\ \A j \in from..(k - 1) : ~occursAt(s, sub, j)
    ELSE -1
indexOf(s, sub) == indexOfFrom(s, sub, 0)
includes(s, sub) == indexOf(s, sub) # -1
startsWith(s, sub) == occursAt(s, sub, 0)

\* (text.match(/"/g) || []).length + (text.match(/'/g) || []).length
quoteCount(text) == Cardinality({k \in 1..Len(text) : IsQuote(text[k])})

\* the class [\w-] of the COPY pattern
IsWordChar(c) ==
    \/ c = "-" \/ c = "_" \/ IsDigit(c)
    \/ (c # LF /\ CharCode(c) >= 65 /\ CharCode(c) <= 90)
    \/ (c # LF /\ CharCode(c) >= 97 /\ CharCode(c) <= 122)
\* the length of the run of blanks (\s+) s starts with
RECURSIVE blanks(_)
blanks(s) == IF s # <<>> /\ s[1] = " " THEN 1 + blanks(Tail(s)) ELSE 0
\* the length of the run of [\w-] characters s starts with
RECURSIVE wordRun(_)
wordRun(s) == IF s # <<>> /\ IsWordChar(s[1]) THEN 1 + wordRun(Tail(s)) ELSE 0

COPY == <<"C", "O", "P", "Y">>
\* statementStr.match(/^COPY\s+([\w-]+)(.*)$/i) with the blanks counted (b)
\* and the name measured (w)
copyGroups(statementStr, b, w) ==
    [matched |-> b >= 1 /\ w >= 1,
     bookName |-> toUpperCase(SubSeq(statementStr, 5 + b, 4 + b + w)),
     remainder |-> SubSeq(statementStr, 5 + b + w, Len(statementStr))]
NoMatch == [matched |-> FALSE, bookName |-> <<>>, remainder |-> <<>>]
copyMatch(statementStr) ==
    IF toUpperCase(SubSeq(statementStr, 1, 4)) = COPY
    THEN copyGroups(statementStr, blanks(SubSeq(statementStr, 5, Len(statementStr))),
                    wordRun(trimStart(SubSeq(statementStr, 5, Len(statementStr)))))
    ELSE NoMatch

\* process: actualCopyIdx, from copyStartAtStart and copyIdx
actualCopyIdx(upperContent) ==
    IF startsWith(trimStart(upperContent), <<"C", "O", "P", "Y", " ">>)
    THEN indexOf(upperContent, COPY)
    ELSE IF indexOf(upperContent, <<" ", "C", "O", "P", "Y", " ">>) # -1
    THEN indexOf(upperContent, <<" ", "C", "O", "P", "Y", " ">>) + 1
    ELSE -1
\* process: the COPY statement found in contentArea at idx, if it is one
copyAt(contentArea, idx) ==
    IF idx # -1 /\ quoteCount(substring(contentArea, 0, idx)) % 2 = 0
    THEN [idx |-> idx, m |-> copyMatch(substringFrom(contentArea, idx))]
    ELSE [idx |-> idx, m |-> NoMatch]
\* process: what the scan of one line finds
copyStatement(line) ==
    IF Len(line) < 7 \/ line[7] = "*" \/ line[7] = "/"
    THEN [idx |-> -1, m |-> NoMatch]
    ELSE copyAt(substringFrom(line, 6),
                actualCopyIdx(toUpperCase(substringFrom(line, 6))))

\* the alternation (?:==|'|") at the offset k of s: the length it takes, 0
\* if it does not match
delimiter(s, k) ==
    IF occursAt(s, <<"=", "=">>, k) THEN 2
    ELSE IF k < Len(s) /\ IsQuote(s[k + 1]) THEN 1
    ELSE 0
\* the lazy (.+?) from the offset k: the fewest characters after which a
\* delimiter stands, 0 if there is none
lazyUntilDelimiter(s, k) ==
    IF \E n \in 1..(Len(s) - k) : delimiter(s, k + n) > 0
    THEN CHOOSE n \in 1..(Len(s) - k) :
             delimiter(s, k + n) > 0 /\ \A j \in 1..(n - 1) : delimiter(s, k + j) = 0
    ELSE 0
\* \s+BY\s+ at the offset k, the blanks before (b1) and after (b2) counted:
\* the offset behind it, -1 if it does not match
byAfter(s, k, b1, b2) ==
    IF b1 >= 1 /\ b2 >= 1 /\ toUpperCase(SubSeq(s, k + b1 + 1, k + b1 + 2)) = <<"B", "Y">>
    THEN k + b1 + 2 + b2
    ELSE -1
byKeyword(s, k) ==
    byAfter(s, k, blanks(SubSeq(s, k + 1, Len(s))),
            blanks(SubSeq(s, k + blanks(SubSeq(s, k + 1, Len(s))) + 3, Len(s))))
\* the second operand, its opening delimiter at the offset k (-1: no BY)
toOperand(s, k) ==
    IF k = -1 \/ delimiter(s, k) = 0 \/ lazyUntilDelimiter(s, k + delimiter(s, k)) = 0
    THEN [ok |-> FALSE, to |-> <<>>, end |-> 0]
    ELSE [ok |-> TRUE,
          to |-> SubSeq(s, k + delimiter(s, k) + 1,
                        k + delimiter(s, k) + lazyUntilDelimiter(s, k + delimiter(s, k))),
          end |-> k + delimiter(s, k) + lazyUntilDelimiter(s, k + delimiter(s, k))
                    + delimiter(s, k + delimiter(s, k)
                                     + lazyUntilDelimiter(s, k + delimiter(s, k)))]
\* what follows the first operand when it ends at the offset k
afterFrom(s, k) ==
    IF delimiter(s, k) = 0 THEN [ok |-> FALSE, to |-> <<>>, end |-> 0]
    ELSE toOperand(s, byKeyword(s, k + delimiter(s, k)))
\* the pattern tried at the offset p, the first operand starting at f: the
\* lazy (.+?) grows until the rest of the pattern matches
fromOperand(s, p, f) ==
    IF f > p /\ \E n \in 1..(Len(s) - f) : afterFrom(s, f + n).ok
    THEN LET n == CHOOSE n \in 1..(Len(s) - f) :
                      afterFrom(s, f + n).ok
                      /\ \A j \in 1..(n - 1) : ~afterFrom(s, f + j).ok
         IN  [ok |-> TRUE, from |-> SubSeq(s, f + 1, f + n), to |-> afterFrom(s, f + n).to,
              end |-> afterFrom(s, f + n).end]
    ELSE [ok |-> FALSE, from |-> <<>>, to |-> <<>>, end |-> 0]
replacingAt(s, p) == fromOperand(s, p, p + delimiter(s, p))
\* regex.exec in a loop: the matches from lastIndex on, leftmost first
RECURSIVE replacementsFrom(_, _)
replacementsFrom(s, lastIndex) ==
    IF \E p \in lastIndex..Len(s) : replacingAt(s, p).ok
    THEN LET p == CHOOSE p \in lastIndex..Len(s) :
                      replacingAt(s, p).ok
                      /\ \A j \in lastIndex..(p - 1) : ~replacingAt(s, j).ok
         IN  <<[from |-> replacingAt(s, p).from, to |-> replacingAt(s, p).to]>>
             \o replacementsFrom(s, replacingAt(s, p).end)
    ELSE <<>>
\* prepareCopybook: the replacements of the REPLACING clause
replacements(replacingClause) ==
    IF replacingClause # <<>> /\ includes(replacingClause, <<"R", "E", "P", "L", "A", "C",
                                                             "I", "N", "G">>)
    THEN replacementsFrom(replacingClause, 0)
    ELSE <<>>

\* contentLine.replace(new RegExp(escapedFrom, 'g'), to): every occurrence
\* of the text from, left to right, in the letter case it is written in (to
\* is a text without the character $)
RECURSIVE replaceAll(_, _, _)
replaceAll(line, from, to) ==
    IF indexOf(line, from) = -1 THEN line
    ELSE SubSeq(line, 1, indexOf(line, from)) \o to
         \o replaceAll(SubSeq(line, indexOf(line, from) + Len(from) + 1, Len(line)), from, to)
\* replacements.forEach over one line
RECURSIVE applyReplacements(_, _)
applyReplacements(contentLine, reps) ==
    IF reps = <<>> THEN contentLine
    ELSE applyReplacements(replaceAll(contentLine, reps[1].from, reps[1].to), Tail(reps))

\* prepareCopybook, validation 1: a division header
isDivisionHeader(line) ==
    /\ includes(line, <<"D", "I", "V", "I", "S", "I", "O", "N">>)
    /\ \/ includes(line, <<"I", "D", "E", "N", "T", "I", "F", "I", "C", "A", "T", "I", "O",
                           "N">>)
       \/ includes(line, <<"E", "N", "V", "I", "R", "O", "N", "M", "E", "N", "T">>)
       \/ includes(line, <<"D", "A", "T", "A">>)
       \/ includes(line, <<"P", "R", "O", "C", "E", "D", "U", "R", "E">>)
\* prepareCopybook, validation 2: a line of code beyond column 72
exceedsColumn72(line) == Len(line) > 72 /\ Len(line) >= 7 /\ line[7] # "*"
illegalHeader(bookName, line) ==
    <<"I", "G", "Y", "D", "S", "2", "0", "7", "0", "-", "S", " ", "C", "O", "P", "Y", "B",
      "O", "O", "K", " ">> \o bookName \o <<" ", "C", "O", "N", "T", "A", "I", "N", "S",
      " ", "I", "L", "L", "E", "G", "A", "L", " ", "H", "E", "A", "D", "E", "R", " ", "'">>
      \o trim(line)
    \o <<"'", ".", " ", "C", "O", "P", "Y", "B", "O", "O", "K", "S", " ", "C", "A", "N",
         "N", "O", "T", " ", "C", "O", "N", "T", "A", "I", "N", " ", "D", "I", "V", "I",
         "S", "I", "O", "N", "S", ".">>
lineTooLong(bookName, i) ==
    <<"I", "G", "Y", "D", "S", "2", "0", "7", "1", "-", "S", " ", "C", "O", "P", "Y", "B",
      "O", "O", "K", " ">> \o bookName \o <<" ", "L", "I", "N", "E", " ">> \o NatToDigits(i)
    \o <<" ", "E", "X", "C", "E", "E", "D", "S", " ", "C", "O", "L", "U", "M", "N", " ",
         "7", "2", ".">>
NoError == <<>>
\* prepareCopybook, the loop over the lines from the i-th on
RECURSIVE prepareLines(_, _, _, _, _)
prepareLines(lines, i, reps, bookName, processed) ==
    IF i > Len(lines) THEN [error |-> NoError, lines |-> processed]
    ELSE IF isDivisionHeader(lines[i])
    THEN [error |-> illegalHeader(bookName, lines[i]), lines |-> <<>>]
    ELSE IF exceedsColumn72(lines[i])
    THEN [error |-> lineTooLong(bookName, i), lines |-> <<>>]
    ELSE prepareLines(lines, i + 1, reps, bookName,
                      Append(processed, applyReplacements(lines[i], reps)))
prepareCopybook(content, replacingClause, bookName) ==
    prepareLines(split(content), 1, replacements(replacingClause), bookName, <<>>)

\* what one pass over the lines ends with
Pass(newLines, hasChanges) ==
    [kind |-> "pass", lines |-> newLines, hasChanges |-> hasChanges,
     missingCopy |-> <<>>, error |-> NoError]
\* return { expandedSource: lines.join('\n'), missingCopy: {...} }
MissingCopy(lines, name, line, column) ==
    [kind |-> "return", lines |-> lines, hasChanges |-> FALSE,
     missingCopy |-> <<[name |-> name, line |-> line, column |-> column]>>,
     error |-> NoError]
\* return { expandedSource: lines.join('\n'), error: e.message }
Failed(lines, message) ==
    [kind |-> "return", lines |-> lines, hasChanges |-> FALSE,
     missingCopy |-> <<>>, error |-> message]
beginCopy(bookName) == <<" ", " ", " ", " ", " ", " ", "*", "+", "+", " ", "B", "E", "G",
                         "I", "N", " ", "C", "O", "P", "Y", " ">> \o bookName
endCopy(bookName) == <<" ", " ", " ", " ", " ", " ", "*", "+", "+", " ", "E", "N", "D", " ",
                       "C", "O", "P", "Y", " ">> \o bookName

\* process: what the turn of the loop for one line pushes on newLines
Pushed(pushed, hasChanges) ==
    [kind |-> "push", lines |-> pushed, hasChanges |-> hasChanges,
     missingCopy |-> <<>>, error |-> NoError]
\* process: the copybook is in the library, injected is what prepareCopybook
\* made of it
expandCopy(lines, bookName, injected) ==
    IF injected.error # NoError THEN Failed(lines, injected.error)
    ELSE Pushed(<<beginCopy(bookName)>> \o injected.lines \o <<endCopy(bookName)>>, TRUE)
\* process: the i-th line, st being the COPY statement found in it (the
\* code counts the lines from 0, i stands for its i - 1)
scanCopy(lines, i, library, st) ==
    IF ~st.m.matched THEN Pushed(<<lines[i]>>, FALSE)
    ELSE IF ~MapHas(library, st.m.bookName)
    THEN MissingCopy(lines, st.m.bookName, (i - 1) + 1, 7 + st.idx + 1)
    ELSE expandCopy(lines, st.m.bookName,
                    prepareCopybook(library[st.m.bookName], st.m.remainder, st.m.bookName))
\* process: the body of the for loop at the i-th line
scanLine(lines, i, library) == scanCopy(lines, i, library, copyStatement(lines[i]))
\* what the turns for the lines lo..hi push, in the order of the lines
RECURSIVE pushedBy(_, _, _, _)
pushedBy(lines, lo, hi, library) ==
    IF lo > hi THEN <<>>
    ELSE IF lo = hi THEN scanLine(lines, lo, library).lines
    ELSE pushedBy(lines, lo, (lo + hi) \div 2, library)
         \o pushedBy(lines, ((lo + hi) \div 2) + 1, hi, library)
\* process: the for loop of one pass from the i-th line on: it returns at
\* the first line whose turn returns, and ends the pass otherwise
scanLines(lines, i, newLines, hasChanges, library) ==
    IF \E j \in i..Len(lines) : scanLine(lines, j, library).kind = "return"
    THEN scanLine(lines,
                  CHOOSE j \in i..Len(lines) :
                      /\ scanLine(lines, j, library).kind = "return"
                      /\ \A k \in i..(j - 1) : scanLine(lines, k, library).kind # "return",
                  library)
    ELSE Pass(newLines \o pushedBy(lines, i, Len(lines), library),
              hasChanges \/ \E j \in i..Len(lines) : scanLine(lines, j, library).hasChanges)

\* a PreprocessorResult; an absent missingCopy is the empty sequence, an
\* absent error the empty text
PreprocessorResult(expandedSource, missingCopy, error) ==
    [expandedSource |-> expandedSource, missingCopy |-> missingCopy, error |-> error]
NoResult == PreprocessorResult(<<>>, <<>>, NoError)
nestedCopyDepth == <<"I", "G", "Y", "D", "S", "1", "0", "9", "0", "-", "S", " ", "C", "O",
                     "M", "P", "I", "L", "E", "R", " ", "L", "I", "M", "I", "T", " ", "E",
                     "X", "C", "E", "E", "D", "E", "D", ":", " ", "N", "E", "S", "T", "E",
                     "D", " ", "C", "O", "P", "Y", " ", "D", "E", "P", "T", "H", ".">>

PrepInit ==
    prep = [phase |-> "idle", lines |-> <<>>, hasChanges |-> FALSE, loops |-> 0,
            library |-> EmptyMap, result |-> NoResult]

\* Preprocessor.process is called: the source is split, no pass made yet
process(source, library) ==
    /\ prep.phase \in {"idle", "returned"}
    /\ prep' = [phase |-> "scanning", lines |-> split(source), hasChanges |-> TRUE,
                loops |-> 0, library |-> library, result |-> NoResult]
    /\ UNCHANGED <<rtVars, peer, storage, frontVars, semantic, app>>

\* process: the pass ended with r
passEnds(r) ==
    IF r.kind = "pass"
    THEN prep' = [prep EXCEPT !.lines = r.lines, !.hasChanges = r.hasChanges,
                              !.loops = prep.loops + 1]
    ELSE prep' = [prep EXCEPT !.phase = "returned", !.loops = prep.loops + 1,
                              !.hasChanges = FALSE,
                              !.result = PreprocessorResult(join(r.lines), r.missingCopy,
                                                            r.error)]
\* process: one turn of the while loop
processPass ==
    /\ prep.phase = "scanning"
    /\ prep.hasChanges /\ prep.loops < MAX_LOOPS
    /\ passEnds(scanLines(prep.lines, 1, <<>>, FALSE, prep.library))
    /\ UNCHANGED <<rtVars, peer, storage, frontVars, semantic, app>>

\* the while loop is left without the check of loops against MAX_LOOPS
processEndSilent ==
    /\ prep.phase = "scanning"
    /\ ~(prep.hasChanges /\ prep.loops < MAX_LOOPS)
    /\ prep' = [prep EXCEPT !.phase = "returned",
                !.result = PreprocessorResult(join(prep.lines), <<>>, NoError)]
    /\ UNCHANGED <<rtVars, peer, storage, frontVars, semantic, app>>

\* process: the while loop is left
processEnd ==
    /\ prep.phase = "scanning"
    /\ ~(prep.hasChanges /\ prep.loops < MAX_LOOPS)
    /\ prep' = [prep EXCEPT !.phase = "returned",
                !.result = IF prep.loops >= MAX_LOOPS
                           THEN PreprocessorResult(join(prep.lines), <<>>, nestedCopyDepth)
                           ELSE PreprocessorResult(join(prep.lines), <<>>, NoError)]
    /\ UNCHANGED <<rtVars, peer, storage, frontVars, semantic, app>>

(***************************************************************************)
(* The column validator (Validator.validate of validator.ts): the layout   *)
(* of the raw source lines.  The blank is the only white space of the      *)
(* texts validated.                                                        *)
(***************************************************************************)
\* verbs that must start in Area B
AREA_B_KEYWORDS ==
    {<<"A", "C", "C", "E", "P", "T">>,
     <<"A", "D", "D">>,
     <<"A", "L", "T", "E", "R">>,
     <<"C", "A", "L", "L">>,
     <<"C", "A", "N", "C", "E", "L">>,
     <<"C", "L", "O", "S", "E">>,
     <<"C", "O", "M", "P", "U", "T", "E">>,
     <<"C", "O", "N", "T", "I", "N", "U", "E">>,
     <<"D", "E", "L", "E", "T", "E">>,
     <<"D", "I", "S", "P", "L", "A", "Y">>,
     <<"D", "I", "V", "I", "D", "E">>,
     <<"E", "V", "A", "L", "U", "A", "T", "E">>,
     <<"E", "X", "I", "T">>,
     <<"G", "O">>,
     <<"G", "O", "B", "A", "C", "K">>,
     <<"I", "F">>,
     <<"I", "N", "I", "T", "I", "A", "L", "I", "Z", "E">>,
     <<"I", "N", "S", "P", "E", "C", "T">>,
     <<"M", "E", "R", "G", "E">>,
     <<"M", "O", "V", "E">>,
     <<"M", "U", "L", "T", "I", "P", "L", "Y">>,
     <<"O", "P", "E", "N">>,
     <<"P", "E", "R", "F", "O", "R", "M">>,
     <<"R", "E", "A", "D">>,
     <<"R", "E", "L", "E", "A", "S", "E">>,
     <<"R", "E", "T", "U", "R", "N">>,
     <<"R", "E", "W", "R", "I", "T", "E">>,
     <<"S", "E", "A", "R", "C", "H">>,
     <<"S", "E", "T">>,
     <<"S", "O", "R", "T">>,
     <<"S", "T", "A", "R", "T">>,
     <<"S", "T", "O", "P">>,
     <<"S", "T", "R", "I", "N", "G">>,
     <<"S", "U", "B", "T", "R", "A", "C", "T">>,
     <<"U", "N", "S", "T", "R", "I", "N", "G">>,
     <<"W", "R", "I", "T", "E">>,
     <<"E", "L", "S", "E">>,
     <<"E", "N", "D", "-", "I", "F">>,
     <<"E", "N", "D", "-", "P", "E", "R", "F", "O", "R", "M">>,
     <<"T", "H", "E", "N">>}
\* headers that must start in Area A
AREA_A_KEYWORDS ==
    {<<"I", "D", "E", "N", "T", "I", "F", "I", "C", "A", "T", "I", "O", "N">>,
     <<"P", "R", "O", "G", "R", "A", "M", "-", "I", "D">>,
     <<"E", "N", "V", "I", "R", "O", "N", "M", "E", "N", "T">>,
     <<"C", "O", "N", "F", "I", "G", "U", "R", "A", "T", "I", "O", "N">>,
     <<"I", "N", "P", "U", "T", "-", "O", "U", "T", "P", "U", "T">>,
     <<"D", "A", "T", "A">>,
     <<"F", "I", "L", "E">>,
     <<"W", "O", "R", "K", "I", "N", "G", "-", "S", "T", "O", "R", "A", "G", "E">>,
     <<"L", "O", "C", "A", "L", "-", "S", "T", "O", "R", "A", "G", "E">>,
     <<"L", "I", "N", "K", "A", "G", "E">>,
     <<"P", "R", "O", "C", "E", "D", "U", "R", "E">>,
     <<"D", "I", "V", "I", "S", "I", "O", "N">>,
     <<"S", "E", "C", "T", "I", "O", "N">>,
     <<"F", "D">>,
     <<"S", "D">>,
     <<"R", "D">>,
     <<"C", "D">>}

ValidationError(line, column, code, message, severity) ==
    [line |-> line, column |-> column, code |-> code, message |-> message,
     severity |-> severity]
\* Validator.isFatal
isFatal(severity) == severity = "ERROR"

\* content.search(/\S/): the offset of the first character that is no blank
firstCharIdx(content) ==
    IF \E k \in 1..Len(content) : content[k] # " "
    THEN (CHOOSE k \in 1..Len(content) :
              content[k] # " " /\ \A j \in 1..(k - 1) : content[j] = " ") - 1
    ELSE -1
\* the length of the run of non-blank characters s starts with
RECURSIVE nonBlankRun(_)
nonBlankRun(s) == IF s # <<>> /\ s[1] # " " THEN 1 + nonBlankRun(Tail(s)) ELSE 0
\* content.match(/^\s*(\S+)/): the first word, in upper case, "" if none
firstWord(content) ==
    IF firstCharIdx(content) = -1 THEN <<>>
    ELSE toUpperCase(SubSeq(content, firstCharIdx(content) + 1,
                            firstCharIdx(content)
                              + nonBlankRun(substringFrom(content, firstCharIdx(content)))))
\* String.prototype.endsWith('.')
endsWithPeriod(s) == s # <<>> /\ s[Len(s)] = "."
DIVISION == <<"D", "I", "V", "I", "S", "I", "O", "N">>
\* validate: the division the line switches to, if it does
divisionAfter(currentDivision, word, upperLine) ==
    IF word = <<"I", "D", "E", "N", "T", "I", "F", "I", "C", "A", "T", "I", "O",
                "N">> /\ includes(upperLine, DIVISION) THEN "ID"
    ELSE IF word = <<"E", "N", "V", "I", "R", "O", "N", "M", "E", "N",
                     "T">> /\ includes(upperLine, DIVISION) THEN "ENV"
    ELSE IF word = <<"D", "A", "T", "A">> /\ includes(upperLine, DIVISION) THEN "DATA"
    ELSE IF word = <<"P", "R", "O", "C", "E", "D", "U", "R",
                     "E">> /\ includes(upperLine, DIVISION) THEN "PROC"
    ELSE currentDivision

\* validate, rule enforcement: what the line pushes, its first word starting
\* in the column startCol
areaRules(lineNum, startCol, word, currentDivision) ==
    IF word \in AREA_A_KEYWORDS
    THEN IF startCol >= 12
         THEN <<ValidationError(lineNum, startCol, "IGYPS1088-S", "HEADER '", "ERROR")>>
         ELSE <<>>
    ELSE IF AllDigits(word)
    THEN IF DigitsToNat(word) = 1 \/ DigitsToNat(word) = 77
         THEN IF startCol >= 12
              THEN <<ValidationError(lineNum, startCol, "IGYPS1099-S", "LEVEL ", "ERROR")>>
              ELSE <<>>
         ELSE IF DigitsToNat(word) = 66 \/ DigitsToNat(word) = 88
         THEN IF startCol >= 8 /\ startCol <= 11
              THEN <<ValidationError(lineNum, startCol, "IGYPS1100-S", "LEVEL ", "ERROR")>>
              ELSE <<>>
         ELSE <<>>
    ELSE IF word \in AREA_B_KEYWORDS
    THEN IF startCol >= 8 /\ startCol <= 11
         THEN <<ValidationError(lineNum, startCol, "IGYPS1088-S", "STATEMENT '", "ERROR")>>
         ELSE <<>>
    ELSE IF currentDivision = "PROC" /\ startCol >= 12 /\ endsWithPeriod(word)
            /\ SubSeq(word, 1, Len(word) - 1) \notin AREA_B_KEYWORDS
    THEN <<ValidationError(lineNum, startCol, "IGYPS1011-W", "PARAGRAPH '", "WARNING")>>
    ELSE <<>>
\* validate, step 3: the analysis of Area A and Area B
areaAnalysis(rawLine, lineNum, currentDivision) ==
    IF Len(rawLine) < 8 \/ firstCharIdx(substring(rawLine, 7, 72)) = -1
    THEN [errors |-> <<>>, currentDivision |-> currentDivision]
    ELSE [errors |->
              areaRules(lineNum, firstCharIdx(substring(rawLine, 7, 72)) + 8,
                        firstWord(substring(rawLine, 7, 72)),
                        divisionAfter(currentDivision,
                                      firstWord(substring(rawLine, 7, 72)),
                                      toUpperCase(substring(rawLine, 7, 72)))),
          currentDivision |->
              divisionAfter(currentDivision, firstWord(substring(rawLine, 7, 72)),
                            toUpperCase(substring(rawLine, 7, 72)))]
\* validate, step 2: the indicator in column 7
indicatorCheck(rawLine, lineNum, currentDivision) ==
    IF Len(rawLine) >= 7 /\ rawLine[7] \in {"*", "/", "D", "d", "-"}
    THEN [errors |-> <<>>, currentDivision |-> currentDivision]
    ELSE IF Len(rawLine) >= 7 /\ rawLine[7] # " "
    THEN [errors |-> <<ValidationError(lineNum, 7, "IGYPS2004-S",
                                       "INVALID INDICATOR '", "ERROR")>>,
          currentDivision |-> currentDivision]
    ELSE areaAnalysis(rawLine, lineNum, currentDivision)
\* validate, step 1: the text in the columns 73-80
infoArea(rawLine, lineNum) ==
    IF Len(rawLine) > 72 /\ Len(trim(substringFrom(rawLine, 72))) > 0
    THEN <<ValidationError(lineNum, 73, "IGYPS0073-I",
                           "TEXT FOUND IN COLUMNS 73-80 (IGNORED)", "INFO")>>
    ELSE <<>>
\* validate: the body of the for loop for one line
validateLine(rawLine, lineNum, currentDivision) ==
    IF Len(trim(rawLine)) = 0
    THEN [errors |-> <<>>, currentDivision |-> currentDivision]
    ELSE [errors |-> infoArea(rawLine, lineNum)
                       \o indicatorCheck(rawLine, lineNum, currentDivision).errors,
          currentDivision |-> indicatorCheck(rawLine, lineNum, currentDivision).currentDivision]
\* validate: the for loop from the i-th line on (the code counts from 0)
RECURSIVE validateLines(_, _, _, _)
validateLines(lines, i, currentDivision, pushed) ==
    IF i > Len(lines) THEN pushed
    ELSE validateLines(lines, i + 1,
                       validateLine(lines[i], i, currentDivision).currentDivision,
                       pushed \o validateLine(lines[i], i, currentDivision).errors)
NoDivision == "null"
\* Validator.validate(source)
Validator_validate(source) == validateLines(split(source), 1, NoDivision, <<>>)

ValidatorInit == validator = [called |-> FALSE, source |-> <<>>, errors |-> <<>>]
\* a call of Validator.validate; source keeps the argument of the call
validateSource(source) ==
    /\ validator' = [called |-> TRUE, source |-> source,
                     errors |-> Validator_validate(source)]
    /\ UNCHANGED <<rtVars, peer, storage, parser, lexer, prep, semantic, app>>

(***************************************************************************)
(* The semantic validator (SemanticValidator).  Its two static fields are  *)
(* the state; validate threads the list of diagnostics through the checks  *)
(* in the order the code pushes them.                                      *)
(***************************************************************************)
addError(errs, line, col, code, message, severity) ==
    Append(errs, ValidationError(line, col, code, message, severity))
\* context.startLine || 0
startLine(context) ==
    IF "startLine" \in DOMAIN context THEN context.startLine ELSE 0
quoted(name) == <<"'">> \o name \o <<"'">>

\* buildSymbolTable: the diagnostic of a name that is in the table already
\* (as src/unnamed/part_004 has it)
duplicateSymbolWarning(errs, symName) ==
    addError(errs, 0, 0, "IGYPS2112-W",
             <<"V", "A", "R", "I", "A", "B", "L", "E", " ">> \o quoted(symName) \o <<" ",
               "A", "L", "R", "E", "A", "D", "Y", " ", "D", "E", "F", "I", "N", "E", "D",
               ".">>, "WARNING")
\* buildSymbolTable: the diagnostic of a name that is in the table already
duplicateSymbol(errs, symName) ==
    addError(errs, 0, 0, "IGYPS2112-S",
             <<"S", "Y", "M", "B", "O", "L", " ">> \o quoted(symName) \o <<" ", "W", "A",
               "S", " ", "A", "L", "R", "E", "A", "D", "Y", " ", "D", "E", "F", "I", "N",
               "E", "D", " ", "I", "N", " ", "T", "H", "I", "S", " ", "P", "R", "O", "G",
               "R", "A", "M", ".">>,
             "ERROR")
SymbolInfo(v) ==
    [name |-> v.name, level |-> v.level, type |-> v.picType, length |-> v.picLength,
     line |-> 0]
RECURSIVE buildSymbolTable(_, _, _)
buildSymbolTable(variables, symbolTable, errs) ==
    IF variables = <<>> THEN [symbolTable |-> symbolTable, errors |-> errs]
    ELSE IF MapHas(symbolTable, variables[1].name)
    THEN buildSymbolTable(Tail(variables), symbolTable,
                          duplicateSymbol(errs, variables[1].name))
    ELSE buildSymbolTable(Tail(variables),
                          MapSet(symbolTable, variables[1].name, SymbolInfo(variables[1])),
                          errs)

isNumber(val) == val.t = "num"
\* this.symbolTable.get(val) of an operand that is not a number
hasSymbol(table, val) == MapHas(table, val.s)
symbolOf(table, val) == table[val.s]

\* validateVariable: the diagnostics after it (it returns the symbol, or
\* undefined when it raised the error)
validateVariable(table, name, context, errs) ==
    IF ~MapHas(table, name)
    THEN addError(errs, startLine(context), 0, "IGYPS2001-E",
                  <<"V", "A", "R", "I", "A", "B", "L", "E", " ">> \o quoted(name) \o <<" ",
                    "N", "O", "T", " ", "D", "E", "F", "I", "N", "E", "D", ".">>, "ERROR")
    ELSE errs

validateDisplay(table, stmt, context, errs) ==
    IF stmt.values = <<>>
    THEN addError(errs, startLine(context), 0, "IGYPS2142-E",
                  <<"D", "I", "S", "P", "L", "A", "Y", " ", "S", "T", "A", "T", "E", "M",
                    "E", "N", "T", " ", "R", "E", "Q", "U", "I", "R", "E", "S", " ", "A",
                    "T", " ", "L", "E", "A", "S", "T", " ", "O", "N", "E", " ", "O", "P",
                    "E", "R", "A", "N", "D", ".">>, "ERROR")
    ELSE errs

validateAccept(table, stmt, context, errs) ==
    IF MapHas(table, stmt.target) /\ table[stmt.target].type = "9"
    THEN addError(validateVariable(table, stmt.target, context, errs),
                  startLine(context), 0, "IGYPS4005-W",
                  <<"A", "C", "C", "E", "P", "T", " ", "I", "N", "T", "O", " ", "N", "U",
                    "M", "E", "R", "I", "C", " ", "F", "I", "E", "L", "D", " ">>
                    \o quoted(stmt.target)
                  \o <<" ", "M", "A", "Y", " ", "C", "A", "U", "S", "E", " ", "R", "U", "N",
                       "T", "I", "M", "E", " ", "C", "O", "N", "V", "E", "R", "S", "I", "O",
                       "N", " ", "E", "R", "R", "O", "R", ".">>, "WARNING")
    ELSE validateVariable(table, stmt.target, context, errs)

validateConditionOperand(table, val, context, errs) ==
    IF isNumber(val) THEN errs
    ELSE IF hasSymbol(table, val)
    THEN IF symbolOf(table, val).type # "9"
         THEN addError(errs, startLine(context), 0, "IGYPS2113-E",
                       <<"I", "N", "V", "A", "L", "I", "D", " ", "C", "O", "M", "P", "A",
                         "R", "I", "S", "O", "N", ":", " ", "F", "I", "E", "L", "D", " ">>
                         \o quoted(val.s)
                       \o <<" ", "I", "S", " ", "N", "O", "T", " ", "N", "U", "M", "E", "R",
                            "I", "C", " ", "(", "P", "I", "C", " ">>
                            \o <<symbolOf(table, val).type>>
                       \o <<")", ".">>, "ERROR")
         ELSE errs
    ELSE addError(errs, startLine(context), 0, "IGYPS2001-E",
                  <<"I", "D", "E", "N", "T", "I", "F", "I", "E", "R", " ">>
                    \o quoted(val.s) \o <<" ", "W", "A", "S", " ", "N", "O", "T", " ", "D",
                    "E", "C", "L", "A", "R", "E", "D", ".">>, "ERROR")
validateCondition(table, cond, context, errs) ==
    validateConditionOperand(table, cond.right, context,
                             validateConditionOperand(table, cond.left, context, errs))

validatePerformTimes(table, value, context, errs) ==
    IF isNumber(value)
    THEN IF ~NumGreater(value, Num(0))
         THEN addError(errs, startLine(context), 0, "IGYPS2135-E",
                       <<"I", "N", "V", "A", "L", "I", "D", " ", "T", "I", "M", "E", "S",
                         " ", "V", "A", "L", "U", "E", " ">> \o quoted(String(value))
                       \o <<".", " ", "M", "U", "S", "T", " ", "B", "E", " ", "A", " ", "P",
                            "O", "S", "I", "T", "I", "V", "E", " ", "I", "N", "T", "E", "G",
                            "E", "R", ".">>, "ERROR")
         ELSE errs
    ELSE IF hasSymbol(table, value) /\ symbolOf(table, value).type # "9"
    THEN addError(validateVariable(table, value.s, context, errs),
                  startLine(context), 0, "IGYPS2113-E",
                  <<"T", "I", "M", "E", "S", " ", "I", "D", "E", "N", "T", "I", "F", "I",
                    "E", "R", " ">> \o quoted(value.s) \o <<" ", "M", "U", "S", "T", " ",
                    "B", "E", " ", "N", "U", "M", "E", "R", "I", "C", ".">>,
                  "ERROR")
    ELSE validateVariable(table, value.s, context, errs)
\* validatePerformUntil, with the diagnostics of the two operands in errs
staticOperands(cond, context, errs) ==
    IF isNumber(cond.left) /\ isNumber(cond.right)
    THEN addError(errs, startLine(context), 0, "IGYPS4001-W",
                  <<"P", "E", "R", "F", "O", "R", "M", " ", "U", "N", "T", "I", "L", " ",
                    "C", "O", "N", "D", "I", "T", "I", "O", "N", " ", "M", "A", "Y", " ",
                    "R", "E", "S", "U", "L", "T", " ", "I", "N", " ", "I", "N", "F", "I",
                    "N", "I", "T", "E", " ", "L", "O", "O", "P", " ", "(", "S", "T", "A",
                    "T", "I", "C", " ", "O", "P", "E", "R", "A", "N", "D", "S", ")", ".">>,
                  "WARNING")
    ELSE errs
validatePerformUntil(table, cond, context, errs) ==
    staticOperands(cond, context,
                   validateConditionOperand(table, cond.right, context,
                       validateConditionOperand(table, cond.left, context, errs)))

typeDesc(type) == IF type = "9" THEN <<"N", "U", "M", "E", "R", "I", "C">> ELSE <<"A", "L",
                                       "P", "H", "A", "N", "U", "M", "E", "R", "I", "C">>
\* validateMove, the target being in the table
moveInto(table, source, target, context, errs) ==
    IF isNumber(source)
    THEN IF table[target].type # "9"
         THEN addError(errs, startLine(context), 0, "IGYPS2104-E",
                       <<"I", "N", "V", "A", "L", "I", "D", " ", "M", "O", "V", "E", ":",
                         " ", "N", "U", "M", "E", "R", "I", "C", " ", "L", "I", "T", "E",
                         "R", "A", "L", " ", "T", "O", " ", "A", "L", "P", "H", "A", "N",
                         "U", "M", "E", "R", "I", "C", " ", "I", "T", "E", "M", " ">>
                       \o quoted(target) \o <<".">>, "ERROR")
         ELSE errs
    ELSE IF hasSymbol(table, source)
    THEN IF symbolOf(table, source).type # table[target].type
         THEN addError(errs, startLine(context), 0, "IGYPS2104-E",
                       <<"I", "N", "V", "A", "L", "I", "D", " ", "M", "O", "V", "E", ":",
                         " ", "I", "N", "C", "O", "M", "P", "A", "T", "I", "B", "L", "E",
                         " ", "D", "A", "T", "A", " ", "T", "Y", "P", "E", "S", " ", "(">>
                       \o typeDesc(symbolOf(table, source).type) \o <<" ", "T", "O", " ">>
                       \o typeDesc(table[target].type) \o <<")", ".">>, "ERROR")
         ELSE errs
    ELSE IF table[target].type = "9"
    THEN addError(errs, startLine(context), 0, "IGYPS2104-E",
                  <<"I", "N", "V", "A", "L", "I", "D", " ", "M", "O", "V", "E", ":", " ",
                    "A", "L", "P", "H", "A", "N", "U", "M", "E", "R", "I", "C", " ", "L",
                    "I", "T", "E", "R", "A", "L", " ">> \o quoted(source.s)
                  \o <<" ", "T", "O", " ", "N", "U", "M", "E", "R", "I", "C", " ", "I", "T",
                       "E", "M", " ">> \o quoted(target) \o <<".">>, "ERROR")
    ELSE errs
validateMove(table, source, target, context, errs) ==
    IF ~MapHas(table, target) THEN validateVariable(table, target, context, errs)
    ELSE moveInto(table, source, target, context, errs)

\* validateArithmetic, step 2: the source
arithmeticSource(table, value, context, verb, errs) ==
    IF isNumber(value) THEN errs
    ELSE IF hasSymbol(table, value)
    THEN IF symbolOf(table, value).type # "9"
         THEN addError(errs, startLine(context), 0, "IGYPS2113-E",
                       <<"O", "P", "E", "R", "A", "N", "D", " ">> \o quoted(value.s)
                         \o <<" ", "M", "U", "S", "T", " ", "B", "E", " ", "N", "U", "M",
                         "E", "R", "I", "C", " ", "F", "O", "R", " ">>
                       \o verb \o <<".">>, "ERROR")
         ELSE errs
    ELSE addError(errs, startLine(context), 0, "IGYPS2001-E",
                  <<"I", "D", "E", "N", "T", "I", "F", "I", "E", "R", " ">>
                    \o quoted(value.s) \o <<" ", "W", "A", "S", " ", "N", "O", "T", " ",
                    "D", "E", "C", "L", "A", "R", "E", "D", ".">>, "ERROR")
\* validateArithmetic, step 1: the target
arithmeticTarget(table, target, context, verb, errs) ==
    IF MapHas(table, target) /\ table[target].type # "9"
    THEN addError(validateVariable(table, target, context, errs),
                  startLine(context), 0, "IGYPS2113-E",
                  <<"D", "A", "T", "A", " ", "I", "T", "E", "M", " ">> \o quoted(target)
                    \o <<" ", "M", "U", "S", "T", " ", "B", "E", " ", "N", "U", "M", "E",
                    "R", "I", "C", " ", "F", "O", "R", " ">>
                  \o verb \o <<".">>, "ERROR")
    ELSE validateVariable(table, target, context, errs)
validateArithmetic(table, value, target, context, verb, errs) ==
    arithmeticSource(table, value, context, verb,
                     arithmeticTarget(table, target, context, verb, errs))
validateAdd(table, value, target, context, errs) ==
    validateArithmetic(table, value, target, context, <<"A", "D", "D">>, errs)
validateSubtract(table, value, target, context, errs) ==
    validateArithmetic(table, value, target, context, <<"S", "U", "B", "T", "R", "A", "C",
                                                        "T">>, errs)
validateMultiply(table, value, target, context, errs) ==
    validateArithmetic(table, value, target, context, <<"M", "U", "L", "T", "I", "P", "L",
                                                        "Y">>, errs)
validateDivide(table, value, target, context, errs) ==
    validateArithmetic(table, value, target, context, <<"D", "I", "V", "I", "D",
                                                        "E">>, errs)

RECURSIVE validateExpression(_, _, _, _)
validateExpression(table, expr, context, errs) ==
    CASE expr.type = "Binary" ->
            validateExpression(table, expr.right, context,
                               validateExpression(table, expr.left, context, errs))
      [] expr.type = "Unary" -> validateExpression(table, expr.right, context, errs)
      [] expr.type = "Variable" ->
            IF ~MapHas(table, expr.name)
            THEN addError(errs, startLine(context), 0, "IGYPS2001-E",
                          <<"V", "A", "R", "I", "A", "B", "L", "E", " ">>
                            \o quoted(expr.name) \o <<" ", "N", "O", "T", " ", "D", "E",
                            "F", "I", "N", "E", "D", ".">>, "ERROR")
            ELSE IF table[expr.name].type # "9"
            THEN addError(errs, startLine(context), 0, "IGYPS2113-E",
                          <<"V", "A", "R", "I", "A", "B", "L", "E", " ">>
                            \o quoted(expr.name)
                          \o <<" ", "I", "N", " ", "E", "X", "P", "R", "E", "S", "S", "I",
                               "O", "N", " ", "M", "U", "S", "T", " ", "B", "E", " ", "N",
                               "U", "M", "E", "R", "I", "C", ".">>, "ERROR")
            ELSE errs
      [] OTHER -> errs
\* validateCompute, the target first
computeTarget(table, target, context, errs) ==
    IF MapHas(table, target) /\ table[target].type # "9"
    THEN addError(validateVariable(table, target, context, errs),
                  startLine(context), 0, "IGYPS2113-E",
                  <<"T", "A", "R", "G", "E", "T", " ">> \o quoted(target) \o <<" ", "M",
                    "U", "S", "T", " ", "B", "E", " ", "N", "U", "M", "E", "R", "I", "C",
                    " ", "F", "O", "R", " ", "C", "O", "M", "P", "U", "T", "E", ".">>,
                  "ERROR")
    ELSE validateVariable(table, target, context, errs)
validateCompute(table, target, expr, context, errs) ==
    validateExpression(table, expr, context,
                       computeTarget(table, target, context, errs))

RECURSIVE validateStatements(_, _, _)
\* validatePerform, the body validated: the TIMES clause, then the UNTIL one
performClauses(table, stmt, context, errs) ==
    IF stmt.until # NoCond
    THEN validatePerformUntil(table, stmt.until, context,
             IF stmt.times # Undefined
             THEN validatePerformTimes(table, stmt.times, context, errs)
             ELSE errs)
    ELSE IF stmt.times # Undefined
    THEN validatePerformTimes(table, stmt.times, context, errs)
    ELSE errs
validatePerform(table, stmt, context, errs) ==
    performClauses(table, stmt, context,
                   IF stmt.body # <<>> THEN validateStatements(table, stmt.body, errs)
                   ELSE errs)
\* validateStatements, case IF: the condition, the THEN body, the ELSE body
validateIf(table, stmt, errs) ==
    IF stmt.hasElse
    THEN validateStatements(table, stmt.elseBody,
             validateStatements(table, stmt.thenBody,
                 validateCondition(table, stmt.condition, stmt, errs)))
    ELSE validateStatements(table, stmt.thenBody,
             validateCondition(table, stmt.condition, stmt, errs))
\* validateStatements: the switch on the type of one statement
validateStatement(table, stmt, errs) ==
    CASE stmt.type = "MOVE" -> validateMove(table, stmt.source, stmt.target, stmt, errs)
      [] stmt.type = "ADD" -> validateAdd(table, stmt.value, stmt.target, stmt, errs)
      [] stmt.type = "SUBTRACT" ->
            validateSubtract(table, stmt.value, stmt.target, stmt, errs)
      [] stmt.type = "MULTIPLY" ->
            validateMultiply(table, stmt.value, stmt.target, stmt, errs)
      [] stmt.type = "DIVIDE" -> validateDivide(table, stmt.value, stmt.target, stmt, errs)
      [] stmt.type = "COMPUTE" ->
            validateCompute(table, stmt.target, stmt.expression, stmt, errs)
      [] stmt.type = "IF" -> validateIf(table, stmt, errs)
      [] stmt.type = "PERFORM" -> validatePerform(table, stmt, stmt, errs)
      [] stmt.type = "ACCEPT" -> validateAccept(table, stmt, stmt, errs)
      [] stmt.type = "DISPLAY" -> validateDisplay(table, stmt, stmt, errs)
      [] OTHER -> errs
validateStatements(table, statements, errs) ==
    IF statements = <<>> THEN errs
    ELSE validateStatements(table, Tail(statements),
                            validateStatement(table, statements[1], errs))

\* validate, pass 2, on what pass 1 built
validatePass2(program, built) ==
    [symbolTable |-> built.symbolTable,
     errors |-> validateStatements(built.symbolTable,
                                   program.procedureDivision.statements, built.errors)]
\* SemanticValidator.validate: the static fields when it returns; it
\* returns the field errors
validated(program) ==
    validatePass2(program,
                  buildSymbolTable(program.dataDivision.workingStorage
                                   \o program.dataDivision.linkageSection,
                                   EmptyMap, <<>>))

SemanticInit == semantic = [ast |-> NoProgram, symbolTable |-> EmptyMap, errors |-> <<>>]

\* a call of SemanticValidator.validate; ast keeps the argument of the call
validate(program) ==
    /\ semantic' = [ast |-> program] @@ validated(program)
    /\ UNCHANGED <<rtVars, peer, storage, frontVars, prep, app>>

(***************************************************************************)
(* The compile-and-run pipeline of App (runCompilationProcess).  A dataset *)
(* stands for its text by what the front end makes of it: the program      *)
(* Lexer and Parser build from it, or the message the parser throws, and   *)
(* the diagnostics the column Validator gives its layout.                  *)
(***************************************************************************)
Dataset(parseError, program, layout) ==
    [parseError |-> parseError, ast |-> program, layout |-> layout]
\* errs.some(e => e.severity === 'ERROR')
someError(errs) == \E i \in DOMAIN errs : errs[i].severity = "ERROR"

AppInit ==
    app = [status |-> "ISPF ACTIVE", logs |-> <<>>, diagnostics |-> <<>>,
           ast |-> NoProgram, timeout |-> FALSE]

\* new Runtime(...): the fields of a Runtime just constructed
newRuntime ==
    /\ phase' = "idle"
    /\ ast' = NoProgram
    /\ programRepository' = EmptyMap
    /\ callStack' = <<>>
    /\ heap' = <<>>
    /\ nextFid' = 1
    /\ output' = <<>>
    /\ errors' = <<>>
    /\ isRunning' = TRUE
    /\ cics' = CicsContext
    /\ ctl' = <<>>
    /\ debug' = NoDebugger
    /\ wait' = Awaits("none", TRUE)
    /\ nextTransaction' = NoTransaction

\* runCompilationProcess up to its setTimeout; one compilation at a time:
\* it is not started while a run is scheduled or in progress
runCompilationProcess(dataset) ==
    /\ ~app.timeout
    /\ phase # "running"
    /\ IF dataset.parseError # NoError
       THEN /\ app' = [app EXCEPT !.status = "COMPILING...",
                                  !.logs = <<<<"P", "A", "R", "S", "E", "R", " ", "E", "R",
                                               "R", "O", "R", ":", " ">>
                                               \o dataset.parseError>>]
            /\ UNCHANGED rtVars
       ELSE IF someError(dataset.layout)
       THEN /\ app' = [app EXCEPT !.status = "COMPILATION FAILED", !.logs = <<>>,
                                  !.diagnostics = dataset.layout]
            /\ UNCHANGED rtVars
       ELSE /\ app' = [app EXCEPT !.status = "EXECUTING...", !.logs = <<>>,
                                  !.diagnostics = dataset.layout,
                                  !.ast = dataset.ast, !.timeout = TRUE]
            /\ newRuntime
    /\ UNCHANGED <<peer, storage, frontVars, prep, semantic>>

\* the callback of setTimeout starts: runtime.run(ast)
timeoutRun ==
    /\ app.timeout
    /\ runtimeRun(app.ast)
    /\ app' = [app EXCEPT !.timeout = FALSE]
    /\ UNCHANGED <<peer, storage, frontVars, prep, semantic, debug, wait>>

\* the callback of setTimeout resumes with the result of run
timeoutResult ==
    /\ phase = "returned"
    /\ app.status = "EXECUTING..."
    /\ app' = [app EXCEPT !.logs = output,
                          !.status = IF Len(errors) > 0 THEN "JOB FAILED" ELSE "JOB ENDED"]
    /\ UNCHANGED <<rtVars, peer, storage, frontVars, prep, semantic>>

(***************************************************************************)
(* Two Runtime instances.  The variables of the Runtime are the fields of  *)
(* the instance whose code is executing; peer holds the fields of the      *)
(* other instance, and the position of its run, while that run is          *)
(* suspended at an await.  VirtualDisk.storage is static.                  *)
(***************************************************************************)
\* the fields of a Runtime just constructed
Runtime ==
    [phase |-> "idle", ast |-> NoProgram, programRepository |-> EmptyMap,
     callStack |-> <<>>, heap |-> <<>>, nextFid |-> 1, output |-> <<>>,
     errors |-> <<>>, isRunning |-> TRUE, cics |-> CicsContext, ctl |-> <<>>,
     debug |-> NoDebugger, wait |-> Awaits("none", TRUE),
     nextTransaction |-> NoTransaction]
\* the fields of the instance whose code is executing
thisRuntime ==
    [phase |-> phase, ast |-> ast, programRepository |-> programRepository,
     callStack |-> callStack, heap |-> heap, nextFid |-> nextFid, output |-> output,
     errors |-> errors, isRunning |-> isRunning, cics |-> cics, ctl |-> ctl,
     debug |-> debug, wait |-> wait, nextTransaction |-> nextTransaction]
\* the fields of the instance number n
fieldsOf(n) == IF n = peer.instance THEN peer.fields ELSE thisRuntime

\* the executing instance finds the fields f
resumeWith(f) ==
    /\ phase' = f.phase
    /\ ast' = f.ast
    /\ programRepository' = f.programRepository
    /\ callStack' = f.callStack
    /\ heap' = f.heap
    /\ nextFid' = f.nextFid
    /\ output' = f.output
    /\ errors' = f.errors
    /\ isRunning' = f.isRunning
    /\ ctl' = f.ctl
    /\ debug' = f.debug
    /\ wait' = f.wait
    /\ nextTransaction' = f.nextTransaction
\* a Runtime whose CicsContext is a static field: the instance resumed finds
\* the CicsContext the other one left
switchInstanceStaticCics ==
    /\ peer' = [instance |-> thisInstance, fields |-> thisRuntime]
    /\ resumeWith(peer.fields)
    /\ UNCHANGED <<cics, storage, frontVars, prep, semantic, app>>
\* the run of one instance is suspended at an await, or has not started or
\* has returned, and the event loop turns to the code of the other instance
switchInstance ==
    /\ peer' = [instance |-> thisInstance, fields |-> thisRuntime]
    /\ resumeWith(peer.fields)
    /\ cics' = peer.fields.cics
    /\ UNCHANGED <<storage, frontVars, prep, semantic, app>>

(***************************************************************************)
(* The programs the runs are explored on                                   *)
(***************************************************************************)
nA == <<"A">>
nB == <<"B">>
nN == <<"N">>
nM == <<"M">>
nP == <<"P">>
nCNT == <<"C", "N", "T">>
txtA == <<"A">>
txtB == <<"B">>

\* bounds of the explored inputs
MaxTimes == 3
MaxStart == 7
MaxStmts == 2

\* PERFORM n TIMES DISPLAY "A" END-PERFORM, n a literal
TimesLiteralProgram(n) ==
    Program(<<"T", "L">>, <<>>, <<>>, <<>>,
            <<PerformTimes(Num(n), <<DisplayStmt(<<Q(txtA)>>)>>)>>)
\* N PIC 9(1) VALUE v.  SUBTRACT d FROM N.  PERFORM N TIMES DISPLAY "A"
TimesVariableProgram(v, d) ==
    Program(<<"T", "V">>, <<Decl(nN, "9", 1, Num(v))>>, <<>>, <<>>,
            <<MathStmt("SUBTRACT", Num(d), nN),
              PerformTimes(Str(nN), <<DisplayStmt(<<Q(txtA)>>)>>)>>)
\* CNT PIC 9(2) VALUE v.  PERFORM UNTIL CNT > 5 DISPLAY "A" ADD 1 TO CNT
\* END-PERFORM.  DISPLAY CNT.
UntilProgram(v) ==
    Program(<<"U">>, <<Decl(nCNT, "9", 2, Num(v))>>, <<>>, <<>>,
            <<PerformUntil(Cond(Str(nCNT), ">", Num(5)),
                           <<DisplayStmt(<<Q(txtA)>>), MathStmt("ADD", Num(1), nCNT)>>),
              DisplayStmt(<<Str(nCNT)>>)>>)
\* a program that CALLs itself
SelfCallProgram ==
    Program(<<"S">>, <<>>, <<>>, <<>>, <<CallStmt(Q(<<"S">>), <<>>)>>)

\* callees: SUB stores into its parameter, SUBN declares one and ignores it,
\* SUB0 declares none, SUBX and SUBG leave early
SUB == Program(<<"S", "U", "B">>, <<>>, <<>>, <<nP>>,
               <<MoveStmt(Q(<<"Z">>), nP), DisplayStmt(<<Str(nP)>>)>>)
SUBN == Program(<<"S", "U", "B", "N">>, <<>>, <<>>, <<nP>>, <<DisplayStmt(<<Q(txtB)>>)>>)
SUB0 == Program(<<"S", "U", "B", "0">>, <<Decl(nN, "9", 1, Undefined)>>, <<>>, <<>>,
                <<MathStmt("ADD", Num(1), nN), DisplayStmt(<<Str(nN)>>)>>)
SUBX == Program(<<"S", "U", "B", "X">>, <<>>, <<>>, <<>>,
                <<IfStmt(Cond(Num(1), "=", Num(1)), <<ExitProgram>>),
                  DisplayStmt(<<Q(txtB)>>)>>)
SUBG == Program(<<"S", "U", "B", "G">>, <<>>, <<>>, <<>>,
                <<Goback, DisplayStmt(<<Q(txtB)>>)>>)
Library == {SUB, SUBN, SUB0, SUBX, SUBG}

\* A PIC X(2) VALUE "HI".  B PIC X(2).  CALL callee [USING args].  DISPLAY A.
CallerProgram(callee, using) ==
    Program(<<"I">>,
            <<Decl(nA, "X", 2, Q(<<"H", "I">>)), Decl(nB, "X", 2, Undefined)>>,
            <<>>, <<>>,
            <<CallStmt(Q(callee), using), DisplayStmt(<<Str(nA)>>)>>)
CallerPrograms ==
    {CallerProgram(c, u) : c \in {SUB.id, SUBN.id, SUB0.id, SUBX.id, SUBG.id},
                           u \in {<<>>, <<nA>>, <<nA, nB>>}}

\* control flow: IF/ELSE, a plain PERFORM block, COMPUTE, STOP RUN, GOBACK
ControlProgram(v) ==
    Program(<<"F">>, <<Decl(nN, "9", 1, Num(v)), Decl(nA, "X", 2, Undefined)>>,
            <<>>, <<>>,
            <<IfElseStmt(Cond(Str(nN), ">", Num(1)),
                         <<DisplayStmt(<<Q(txtA)>>)>>,
                         <<PerformBlock(<<ComputeStmt(nN, Binary(Var(nN), "PLUS", Lit(4))),
                                          MoveStmt(Str(nN), nA)>>)>>),
              IfStmt(Cond(Str(nN), "=", Num(2)), <<StopRun>>),
              DisplayStmt(<<Str(nA), Str(nN)>>),
              Goback,
              DisplayStmt(<<Q(txtB)>>)>>)

\* statements on cells of both types: stores that fit, overflow, are cut or
\* padded, go negative, or are refused
DataStatements ==
    {MoveStmt(Num(7), nN), MoveStmt(Num(123), nM), MoveStmt(Q(<<"H", "E", "L", "L",
                                                                "O">>), nA),
     MoveStmt(Q(<<"X">>), nB), MoveStmt(Q(<<>>), nA), MoveStmt(Str(nB), nA),
     MoveStmt(Str(nA), nB), MoveStmt(Str(nM), nA), MoveStmt(Str(nA), nN),
     MoveSlice(Q(<<"Z">>), nB, 2, 1),
     MathStmt("ADD", Num(7), nN), MathStmt("SUBTRACT", Num(20), nN),
     MathStmt("MULTIPLY", Num(9), nM), MathStmt("DIVIDE", Num(4), nN),
     MathStmt("ADD", Str(nN), nM),
     ComputeStmt(nM, Binary(Var(nN), "ASTERISK", Lit(25)))}
RECURSIVE StatementLists(_)
StatementLists(n) ==
    IF n = 0 THEN {<<>>}
    ELSE {<<>>} \cup {Append(l, st) : l \in StatementLists(n - 1), st \in DataStatements}
\* N PIC 9(1) VALUE 5.  M PIC 9(2).  A PIC X(2) VALUE "HI".  B PIC X(3).
DataProgram(statements) ==
    Program(<<"D">>,
            <<Decl(nN, "9", 1, Num(5)), Decl(nM, "9", 2, Undefined),
              Decl(nA, "X", 2, Q(<<"H", "I">>)), Decl(nB, "X", 3, Undefined)>>,
            <<>>, <<>>, statements)
DataPrograms == {DataProgram(l) : l \in StatementLists(MaxStmts) \ {<<>>}}

MainPrograms ==
    {TimesLiteralProgram(n) : n \in -1..MaxTimes}
      \cup {TimesVariableProgram(v, d) : v \in {0, 2}, d \in {0, 3}}
      \cup {UntilProgram(v) : v \in 1..MaxStart}
      \cup {SelfCallProgram}
      \cup CallerPrograms
      \cup {ControlProgram(v) : v \in 0..MaxTimes}

(***************************************************************************)
(* The Lexer (compiler/lexer.ts).  tokenize returns the list of tokens or  *)
(* throws; an error is kept as its message up to the position, with the    *)
(* line and the column it names.                                           *)
(***************************************************************************)
Token(type, value, line, column) ==
    [type |-> type, value |-> value, line |-> line, column |-> column]
\* a text of the model as a string
RECURSIVE Joined(_)
Joined(s) == IF s = <<>> THEN "" ELSE s[1] \o Joined(Tail(s))
\* the keys of KEYWORDS
KEYWORDS ==
    {"IDENTIFICATION", "DIVISION", "PROGRAM-ID", "ENVIRONMENT", "DATA",
     "WORKING-STORAGE", "SECTION", "PROCEDURE", "PIC", "VALUE", "MOVE", "ADD",
     "SUBTRACT", "COMPUTE", "TO", "FROM", "IF", "THEN", "ELSE", "END-IF", "PERFORM",
     "UNTIL", "TIMES", "END-PERFORM", "ACCEPT", "DISPLAY", "STOP", "RUN", "ZERO",
     "ZEROS", "ZEROES", "SPACE", "SPACES"}
\* KEYWORDS[upperValue]: the member of TokenType the key stands for
keywordType(upperValue) ==
    CASE Joined(upperValue) \in {"ZEROS", "ZEROES"} -> "ZERO"
      [] Joined(upperValue) = "SPACES" -> "SPACE"
      [] OTHER ->
           Joined([i \in 1..Len(upperValue) |->
                      IF upperValue[i] = "-" THEN "_" ELSE upperValue[i]])
\* Lexer.isAlphaNumeric, on one character
isAlphaNumeric(char) ==
    \/ IsDigit(char)
    \/ char = "-"
    \/ (CharCode(char) >= 65 /\ CharCode(char) <= 90)
    \/ (CharCode(char) >= 97 /\ CharCode(char) <= 122)
\* /^[\+\-]?[0-9]+(\.[0-9]+)?$/.test(upperValue)
isNumberText(upperValue) ==
    LET body == IF upperValue # <<>> /\ upperValue[1] \in {"+", "-"}
                THEN Tail(upperValue) ELSE upperValue
    IN  \/ AllDigits(body)
        \/ \E k \in 2..(Len(body) - 1) :
               /\ body[k] = "."
               /\ AllDigits(SubSeq(body, 1, k - 1))
               /\ AllDigits(SubSeq(body, k + 1, Len(body)))

NoLexError == [message |-> "", line |-> 0, column |-> 0]
LexError(message, line, column) == [message |-> message, line |-> line, column |-> column]
\* what the turn of the while loop at pos leaves: the error it throws, the
\* next pos, the tokens it pushed
Lexed(pos, tokens) == [error |-> NoLexError, next |-> pos, tokens |-> tokens]
LexThrows(message, line, column) ==
    [error |-> LexError(message, line, column), next |-> 0, tokens |-> <<>>]
\* the character of lineContent at the index pos, counted from 0
charAt(lineContent, pos) == lineContent[pos + 1]
\* the characters that stand for one token each, and the token's type
Punctuation ==
    [c \in {".", "(", ")", "=", ">", "<", "+", "-", "/"} |->
        CASE c = "." -> "DOT" [] c = "(" -> "LPAREN" [] c = ")" -> "RPAREN"
          [] c = "=" -> "EQUALS" [] c = ">" -> "GREATER" [] c = "<" -> "LESS"
          [] c = "+" -> "PLUS" [] c = "-" -> "MINUS" [] OTHER -> "SLASH"]
\* the string literal opened at pos: the index of its closing quote, or -1
closingQuote(lineContent, pos) ==
    IF \E k \in (pos + 1)..(Len(lineContent) - 1) :
           charAt(lineContent, k) = charAt(lineContent, pos)
    THEN CHOOSE k \in (pos + 1)..(Len(lineContent) - 1) :
             /\ charAt(lineContent, k) = charAt(lineContent, pos)
             /\ \A j \in (pos + 1)..(k - 1) :
                    charAt(lineContent, j) # charAt(lineContent, pos)
    ELSE -1
\* the word loop goes on over the character at k: a letter, a digit, a
\* hyphen, or a dot followed by a digit
wordGoesOn(lineContent, k) ==
    \/ isAlphaNumeric(charAt(lineContent, k))
    \/ /\ charAt(lineContent, k) = "."
       /\ k + 1 < Len(lineContent)
       /\ IsDigit(charAt(lineContent, k + 1))
\* the index after the word that starts at pos
wordEnd(lineContent, pos) ==
    CHOOSE e \in (pos + 1)..Len(lineContent) :
        /\ \A k \in (pos + 1)..(e - 1) : wordGoesOn(lineContent, k)
        /\ e = Len(lineContent) \/ ~wordGoesOn(lineContent, e)
\* the token of the word value
wordToken(value, lineNum, column) ==
    IF isNumberText(toUpperCase(value))
    THEN Token("LITERAL_NUMBER", toUpperCase(value), lineNum, column)
    ELSE IF Joined(toUpperCase(value)) \in KEYWORDS
    THEN Token(keywordType(toUpperCase(value)), toUpperCase(value), lineNum, column)
    ELSE Token("IDENTIFIER", toUpperCase(value), lineNum, column)
\* the index after the blanks that start at pos
blankEnd(lineContent, pos) ==
    CHOOSE e \in (pos + 1)..Len(lineContent) :
        /\ \A k \in (pos + 1)..(e - 1) : charAt(lineContent, k) = " "
        /\ e = Len(lineContent) \/ charAt(lineContent, e) # " "
\* tokenize: one turn of while (pos < lineContent.length); the turns over a
\* run of blanks, which push nothing, are taken together
lexAt(lineContent, pos, lineNum) ==
    LET char == charAt(lineContent, pos)
        currentColumn == pos + 8
    IN  CASE char = " " -> Lexed(blankEnd(lineContent, pos), <<>>)
          [] char \in DOMAIN Punctuation ->
               Lexed(pos + 1, <<Token(Punctuation[char], <<char>>, lineNum, currentColumn)>>)
          [] char = "*" ->
               IF pos + 1 < Len(lineContent) /\ charAt(lineContent, pos + 1) = "*"
               THEN Lexed(pos + 2, <<Token("POWER", <<"*", "*">>, lineNum, currentColumn)>>)
               ELSE Lexed(pos + 1, <<Token("ASTERISK", <<"*">>, lineNum, currentColumn)>>)
          [] IsQuote(char) ->
               IF closingQuote(lineContent, pos) = -1
               THEN LexThrows("IGYPS2002-S String literal not closed", lineNum,
                              currentColumn)
               ELSE Lexed(closingQuote(lineContent, pos) + 1,
                          <<Token("LITERAL_STRING",
                                  SubSeq(lineContent, pos + 2,
                                         closingQuote(lineContent, pos)),
                                  lineNum, currentColumn)>>)
          [] isAlphaNumeric(char) ->
               Lexed(wordEnd(lineContent, pos),
                     <<wordToken(SubSeq(lineContent, pos + 1, wordEnd(lineContent, pos)),
                                 lineNum, currentColumn)>>)
          [] OTHER -> LexThrows("IGYPS2002-S Illegal character", lineNum, currentColumn)
\* tokenize: the while loop over lineContent from pos on, tokens being what
\* the line has pushed so far
RECURSIVE lexLine(_, _, _, _)
lexNext(lineContent, lineNum, tokens, turn) ==
    IF turn.error # NoLexError THEN turn
    ELSE lexLine(lineContent, turn.next, lineNum, tokens \o turn.tokens)
lexLine(lineContent, pos, lineNum, tokens) ==
    IF pos >= Len(lineContent) THEN Lexed(pos, tokens)
    ELSE lexNext(lineContent, lineNum, tokens, lexAt(lineContent, pos, lineNum))
\* the body of the loop over the lines reading a line to its end
lexRawLineUncut(rawLine, lineNum) ==
    IF Len(rawLine) < 7 THEN Lexed(0, <<>>)
    ELSE IF rawLine[7] = "*" \/ rawLine[7] = "/" THEN Lexed(0, <<>>)
    ELSE IF Len(rawLine) <= 7 THEN Lexed(0, <<>>)
    ELSE lexLine(substring(rawLine, 7, Len(rawLine)), 0, lineNum, <<>>)
\* tokenize: the body of the loop over the lines, for the line rawLine
lexRawLine(rawLine, lineNum) ==
    IF Len(rawLine) < 7 THEN Lexed(0, <<>>)
    ELSE IF rawLine[7] = "*" \/ rawLine[7] = "/" THEN Lexed(0, <<>>)
    ELSE IF Len(rawLine) <= 7 THEN Lexed(0, <<>>)
    ELSE lexLine(substring(rawLine, 7, IF Len(rawLine) < 72 THEN Len(rawLine) ELSE 72),
                 0, lineNum, <<>>)
\* tokenize: the loop over the lines from the i-th on, and the end-of-file
\* token after the last
RECURSIVE lexLines(_, _, _)
lexAfter(lines, i, tokens, line) ==
    IF line.error # NoLexError THEN line
    ELSE lexLines(lines, i + 1, tokens \o line.tokens)
lexLines(lines, i, tokens) ==
    IF i > Len(lines)
    THEN Lexed(0, Append(tokens, Token("EOF", <<"E", "O", "F">>, Len(lines) + 1, 0)))
    ELSE lexAfter(lines, i, tokens, lexRawLine(lines[i], i))
\* what tokenize makes of the source
tokenized(source) == lexLines(split(source), 1, <<>>)

LexerInit ==
    lexer = [phase |-> "idle", source |-> <<>>, tokens |-> <<>>, error |-> NoLexError]
\* new Lexer(source).tokenize()
tokenize(source) ==
    /\ lexer.phase = "idle"
    /\ lexer' = IF tokenized(source).error # NoLexError
                THEN [phase |-> "threw", source |-> source, tokens |-> <<>>,
                      error |-> tokenized(source).error]
                ELSE [phase |-> "returned", source |-> source,
                      tokens |-> tokenized(source).tokens, error |-> NoLexError]
    /\ UNCHANGED <<rtVars, peer, storage, validator, parser, prep, semantic, app>>

(***************************************************************************)
(* The Parser (compiler/parser.ts), from the header of the Procedure       *)
(* Division on.  A parse function returns the statement it built and the   *)
(* index of the next token ("ok"), null and that index ("null"), or the    *)
(* error it throws ("throw"); "hang" stands for a loop whose turn leaves   *)
(* the parser as it found it, which never ends.  The debug tree, which     *)
(* nothing reads while parsing, is left out; so are the counters ifStack   *)
(* and performStack, which parseIf and parsePerform count up and down      *)
(* around their work and nothing reads.                                    *)
(***************************************************************************)
Parsed(current, v) == [kind |-> "ok", current |-> current, v |-> v, err |-> <<>>]
ReturnedNull(current) ==
    [kind |-> "null", current |-> current, v |-> Undefined, err |-> <<>>]
Thrown(err) == [kind |-> "throw", current |-> 0, v |-> Undefined, err |-> err]
Hangs == [kind |-> "hang", current |-> 0, v |-> Undefined, err |-> <<>>]

\* the token kinds from MOVE to HANDLE in the order of the enum TokenType
KeywordTypes ==
    {"MOVE", "ADD", "SUBTRACT", "MULTIPLY", "DIVIDE", "TO", "FROM", "BY", "INTO",
     "GIVING", "COMPUTE", "IF", "THEN", "ELSE", "END_IF", "PERFORM", "UNTIL",
     "TIMES", "END_PERFORM", "ACCEPT", "DISPLAY", "STOP", "RUN", "CALL", "USING",
     "EXIT", "PROGRAM", "GOBACK", "OPEN", "CLOSE", "READ", "WRITE", "REWRITE",
     "DELETE", "START", "INPUT", "OUTPUT", "I_O", "EXTEND", "AT", "END", "INVALID",
     "NOT", "IS", "EXEC", "CICS", "END_EXEC", "SEND", "RECEIVE", "MAP", "MAPSET",
     "TRANSID", "COMMAREA", "LENGTH", "RIDFLD", "HANDLE"}
isKeyword(type) == type \in KeywordTypes

peek(tokens, current) == tokens[current + 1]
isAtEnd(tokens, current) == peek(tokens, current).type = "EOF"
check(tokens, current, type) ==
    ~isAtEnd(tokens, current) /\ peek(tokens, current).type = type
advance(tokens, current) == IF isAtEnd(tokens, current) THEN current ELSE current + 1
\* match(...types): the index of the next token after it
match(tokens, current, types) ==
    IF \E type \in types : check(tokens, current, type) THEN current + 1 ELSE current
\* Parser.error: the syntax error with the line and the column of the token
error(token, message) ==
    [code |-> "IGYPS2120-S", line |-> token.line, column |-> token.column,
     message |-> message,
     found |-> IF token.type = "EOF" THEN <<"E", "O", "F">> ELSE token.value]
consume(tokens, current, type, message) ==
    IF check(tokens, current, type)
    THEN Parsed(current + 1, peek(tokens, current))
    ELSE Thrown(error(peek(tokens, current),
                      "Expected " \o type \o " (" \o message \o ")"))

\* Parser.parseValue
parseValue(tokens, current) ==
    IF check(tokens, current, "LITERAL_NUMBER")
    THEN Parsed(current + 1, Number(Str(peek(tokens, current).value)))
    ELSE IF check(tokens, current, "LITERAL_STRING")
            \/ check(tokens, current, "IDENTIFIER")
    THEN Parsed(current + 1, Str(peek(tokens, current).value))
    ELSE Thrown(error(peek(tokens, current), "Expected Value"))

\* parseCondition once the left operand is parsed
conditionAfter(tokens, left) ==
    LET hasOperator == \E type \in {"EQUALS", "GREATER", "LESS"} :
                           check(tokens, left.current, type)
        operator == IF check(tokens, left.current, "GREATER") THEN ">"
                    ELSE IF check(tokens, left.current, "LESS") THEN "<"
                    ELSE "="
        right == parseValue(tokens, match(tokens, left.current,
                                          {"EQUALS", "GREATER", "LESS"}))
    IN  IF right.kind = "throw" THEN right
        ELSE Parsed(right.current, Cond(left.v, operator, right.v))
\* Parser.parseCondition
parseCondition(tokens, current) ==
    LET left == parseValue(tokens, current)
    IN  IF left.kind = "throw" THEN left ELSE conditionAfter(tokens, left)

\* parseDisplay, its do-while loop over the values
RECURSIVE displayValues(_, _, _)
displayValues(tokens, current, values) ==
    LET value == parseValue(tokens, current)
    IN  IF value.kind = "throw" THEN value
        ELSE IF ~check(tokens, value.current, "DOT")
                /\ ~isKeyword(peek(tokens, value.current).type)
             THEN displayValues(tokens, value.current, Append(values, value.v))
             ELSE Parsed(value.current, Append(values, value.v))
\* Parser.parseDisplay
parseDisplay(tokens, current) ==
    LET values == displayValues(tokens, current, <<>>)
    IN  IF values.kind = "throw" THEN values
        ELSE Parsed(match(tokens, values.current, {"DOT"}), DisplayStmt(values.v))
\* parseMove: Number(this.parseValue()) of a bound of the slice; a bound
\* that is no whole number stands as 0
sliceBound(v) == IF Number(v).t = "num" /\ Number(v).d = 1 THEN Number(v).n ELSE 0
\* parseMove, the reference modification after the target: (start:len)
moveSliceAfter(tokens, current, value, target) ==
    LET start == parseValue(tokens, current)
        colon == consume(tokens, start.current, "COLON", ":")
        len == parseValue(tokens, colon.current)
        paren == consume(tokens, len.current, "RPAREN", ")")
    IN  IF start.kind = "throw" THEN start
        ELSE IF colon.kind = "throw" THEN colon
        ELSE IF len.kind = "throw" THEN len
        ELSE IF paren.kind = "throw" THEN paren
        ELSE Parsed(match(tokens, paren.current, {"DOT"}),
                    MoveSlice(value, target, sliceBound(start.v), sliceBound(len.v)))
\* Parser.parseMove
parseMove(tokens, current) ==
    LET value == parseValue(tokens, current)
        to == consume(tokens, value.current, "TO", "Keyword TO")
        target == consume(tokens, to.current, "IDENTIFIER", "Target Identifier")
    IN  IF value.kind = "throw" THEN value
        ELSE IF to.kind = "throw" THEN to
        ELSE IF target.kind = "throw" THEN target
        ELSE IF check(tokens, target.current, "LPAREN")
        THEN moveSliceAfter(tokens, target.current + 1, value.v, target.v.value)
        ELSE Parsed(match(tokens, target.current, {"DOT"}),
                    MoveStmt(value.v, target.v.value))
\* Parser.parseAccept
parseAccept(tokens, current) ==
    LET target == consume(tokens, current, "IDENTIFIER", "Target")
    IN  IF target.kind = "throw" THEN target
        ELSE Parsed(match(tokens, target.current, {"DOT"}), AcceptStmt(target.v.value))
\* parseStatement: STOP RUN.
parseStop(tokens, current) ==
    LET run0 == consume(tokens, current, "RUN", "RUN")
        dot == consume(tokens, run0.current, "DOT", ".")
    IN  IF run0.kind = "throw" THEN run0
        ELSE IF dot.kind = "throw" THEN dot
        ELSE Parsed(dot.current, StopRun)
\* parseStatement: EXIT PROGRAM
parseExit(tokens, current) ==
    LET program == consume(tokens, current, "PROGRAM", "PROGRAM")
    IN  IF program.kind = "throw" THEN program
        ELSE Parsed(match(tokens, program.current, {"DOT"}), ExitProgram)

\* { ...statement, line: startToken.line }
withLine(r, line) == IF r.kind = "ok" THEN [r EXCEPT !.v = AtLine(@, line)] ELSE r

\* parsePerform, UNTIL condition or a value and TIMES: a value that TIMES
\* does not follow is consumed and dropped
performHeader(tokens, current) ==
    IF check(tokens, current, "UNTIL")
    THEN LET until == parseCondition(tokens, current + 1)
         IN  IF until.kind = "throw" THEN until
             ELSE Parsed(until.current, [until |-> until.v, times |-> Undefined])
    ELSE IF check(tokens, current, "LITERAL_NUMBER")
            \/ check(tokens, current, "IDENTIFIER")
    THEN LET val == parseValue(tokens, current)
         IN  Parsed(match(tokens, val.current, {"TIMES"}),
                    [until |-> NoCond,
                     times |-> IF check(tokens, val.current, "TIMES") THEN val.v
                               ELSE Undefined])
    ELSE Parsed(current, [until |-> NoCond, times |-> Undefined])

RECURSIVE parseStatement(_, _)
RECURSIVE ifBody(_, _, _, _)
RECURSIVE performBody(_, _, _)
\* parseIf once both branches are parsed: if (match(END_IF)) match(DOT);
\* else if (!check(DOT)) match(DOT)
ifEnd(tokens, condition, thenBody, hasElse, elseBody) ==
    IF elseBody.kind # "ok" THEN elseBody
    ELSE Parsed(IF check(tokens, elseBody.current, "END_IF")
                THEN match(tokens, elseBody.current + 1, {"DOT"})
                ELSE elseBody.current,
                IF hasElse THEN IfElseStmt(condition, thenBody.v, elseBody.v)
                ELSE IfStmt(condition, thenBody.v))
\* parseIf once the THEN branch is parsed (thenBody)
ifElse(tokens, condition, thenBody) ==
    IF thenBody.kind # "ok" THEN thenBody
    ELSE IF check(tokens, thenBody.current, "ELSE")
    THEN ifEnd(tokens, condition, thenBody, TRUE,
               ifBody(tokens, thenBody.current + 1, <<>>, FALSE))
    ELSE ifEnd(tokens, condition, thenBody, FALSE, Parsed(thenBody.current, <<>>))
\* parseIf once the condition is parsed
ifThen(tokens, condition) ==
    IF condition.kind = "throw" THEN condition
    ELSE ifElse(tokens, condition.v,
                ifBody(tokens, match(tokens, condition.current, {"THEN"}), <<>>, TRUE))
\* Parser.parseIf
parseIf(tokens, current) == ifThen(tokens, parseCondition(tokens, current))
\* parseIf, a turn of the loop of a branch once parseStatement has returned
\* s: null ends the loop
ifBodyTurn(tokens, s, body, thenBranch) ==
    CASE s.kind = "ok" -> ifBody(tokens, s.current, Append(body, s.v), thenBranch)
      [] s.kind = "null" -> Parsed(s.current, body)
      [] OTHER -> s
\* parseIf, the loop of a branch: the THEN branch also ends at ELSE
ifBody(tokens, current, body, thenBranch) ==
    IF \/ thenBranch /\ check(tokens, current, "ELSE")
       \/ check(tokens, current, "END_IF")
       \/ isAtEnd(tokens, current)
       \/ check(tokens, current, "DOT")
    THEN Parsed(current, body)
    ELSE ifBodyTurn(tokens, parseStatement(tokens, current), body, thenBranch)
\* parsePerform once the body is parsed
performEnd(tokens, header, body, end) ==
    IF body.kind # "ok" THEN body
    ELSE IF end.kind = "throw" THEN end
    ELSE Parsed(match(tokens, end.current, {"DOT"}),
                [type |-> "PERFORM", body |-> body.v, until |-> header.v.until,
                 times |-> header.v.times])
\* parsePerform once the body is parsed: consume(END_PERFORM)
performAfterBody(tokens, header, body) ==
    performEnd(tokens, header, body,
               consume(tokens, body.current, "END_PERFORM", "END-PERFORM"))
\* parsePerform once UNTIL or TIMES is parsed
performAfterHeader(tokens, header) ==
    IF header.kind = "throw" THEN header
    ELSE performAfterBody(tokens, header, performBody(tokens, header.current, <<>>))
\* Parser.parsePerform
parsePerform(tokens, current) ==
    performAfterHeader(tokens, performHeader(tokens, current))
\* parsePerform, a turn of the loop of the body once parseStatement has
\* returned s: a null statement is passed over, and the loop goes on from
\* where parseStatement left the parser
performBodyTurn(tokens, current, s, body) ==
    CASE s.kind = "ok" -> performBody(tokens, s.current, Append(body, s.v))
      [] s.kind = "null" ->
           IF s.current = current THEN Hangs
           ELSE performBody(tokens, s.current, body)
      [] OTHER -> s
\* parsePerform, the loop of the body
performBody(tokens, current, body) ==
    IF check(tokens, current, "END_PERFORM") \/ isAtEnd(tokens, current)
    THEN Parsed(current, body)
    ELSE performBodyTurn(tokens, current, parseStatement(tokens, current), body)
\* Parser.parseStatement, for the statements MOVE, DISPLAY, ACCEPT, IF,
\* PERFORM, STOP RUN, GOBACK and EXIT PROGRAM
parseStatement(tokens, current) ==
    LET startToken == peek(tokens, current)
        at(type) == check(tokens, current, type)
    IN  IF at("ELSE") \/ at("END_IF") \/ at("END_PERFORM") \/ at("DOT")
        THEN ReturnedNull(current)
        ELSE IF at("MOVE")
        THEN withLine(parseMove(tokens, current + 1), startToken.line)
        ELSE IF at("DISPLAY")
        THEN withLine(parseDisplay(tokens, current + 1), startToken.line)
        ELSE IF at("ACCEPT")
        THEN withLine(parseAccept(tokens, current + 1), startToken.line)
        ELSE IF at("IF") THEN withLine(parseIf(tokens, current + 1), startToken.line)
        ELSE IF at("PERFORM")
        THEN withLine(parsePerform(tokens, current + 1), startToken.line)
        ELSE IF at("STOP") THEN withLine(parseStop(tokens, current + 1), startToken.line)
        ELSE IF at("GOBACK")
        THEN Parsed(match(tokens, current + 1, {"DOT"}), AtLine(Goback, startToken.line))
        ELSE IF at("EXIT") THEN withLine(parseExit(tokens, current + 1), startToken.line)
        ELSE ReturnedNull(advance(tokens, current))

\* parseProcedureDivision, the names after USING
RECURSIVE usingNames(_, _, _)
usingNames(tokens, current, names) ==
    LET name == consume(tokens, current, "IDENTIFIER", "Parameter Name")
    IN  IF name.kind = "throw" THEN name
        ELSE IF check(tokens, name.current, "IDENTIFIER")
             THEN usingNames(tokens, name.current, Append(names, name.v.value))
             ELSE Parsed(name.current, Append(names, name.v.value))
\* parseProcedureDivision up to the period of the header: the parameters
procedureHeader(tokens, current) ==
    LET procedure == consume(tokens, current, "PROCEDURE", "Division Header")
        division == consume(tokens, procedure.current, "DIVISION", "Division Header")
        using == IF check(tokens, division.current, "USING")
                 THEN usingNames(tokens, division.current + 1, <<>>)
                 ELSE Parsed(division.current, <<>>)
        dot == consume(tokens, using.current, "DOT", ".")
    IN  IF procedure.kind = "throw" THEN procedure
        ELSE IF division.kind = "throw" THEN division
        ELSE IF using.kind = "throw" THEN using
        ELSE IF dot.kind = "throw" THEN dot
        ELSE Parsed(dot.current, using.v)

NoTokens == <<Token("EOF", <<"E", "O", "F">>, 1, 0)>>
ParserInit ==
    parser = [phase |-> "idle", tokens |-> NoTokens, current |-> 0,
              usingParameters |-> <<>>, statements |-> <<>>, error |-> <<>>]

\* new Parser(tokens).parse(), to the first turn of the loop over the
\* statements of the Procedure Division
parse(tokens) ==
    /\ parser.phase = "idle"
    /\ LET header == procedureHeader(tokens, 0)
       IN  parser' = IF header.kind = "throw"
                     THEN [parser EXCEPT !.phase = "threw", !.tokens = tokens,
                                         !.error = header.err]
                     ELSE [parser EXCEPT !.phase = "statements", !.tokens = tokens,
                                         !.current = header.current,
                                         !.usingParameters = header.v]
    /\ UNCHANGED <<rtVars, peer, storage, validator, lexer, prep, semantic, app>>
\* the parser p after the turn in which parseStatement returned stmt
afterStatement(p, stmt) ==
    CASE stmt.kind = "throw" -> [p EXCEPT !.phase = "threw", !.error = stmt.err]
      [] stmt.kind = "hang" -> p
      [] stmt.kind = "null" -> [p EXCEPT !.current = stmt.current]
      [] OTHER -> [p EXCEPT !.current = stmt.current, !.statements = Append(@, stmt.v)]
\* parseProcedureDivision, a turn of while (!isAtEnd()): a turn that does
\* not end, and one that returns null where it began, leave the parser as
\* it was
procedureTurn ==
    /\ parser.phase = "statements"
    /\ ~isAtEnd(parser.tokens, parser.current)
    /\ parser' = afterStatement(parser, parseStatement(parser.tokens, parser.current))
    /\ UNCHANGED <<rtVars, peer, storage, validator, lexer, prep, semantic, app>>
\* parse returns the Program
parseReturn ==
    /\ parser.phase = "statements"
    /\ isAtEnd(parser.tokens, parser.current)
    /\ parser' = [parser EXCEPT !.phase = "returned"]
    /\ UNCHANGED <<rtVars, peer, storage, validator, lexer, prep, semantic, app>>


Init ==
    /\ RuntimeInit
    /\ PrepInit
    /\ SemanticInit
    /\ AppInit
    /\ peer = [instance |-> 2, fields |-> Runtime]
    /\ storage = [files |-> VirtualDisk, readBy |-> {}]
    /\ ValidatorInit
    /\ ParserInit
    /\ LexerInit

Next ==
    \/ \E p \in Library : hostRegisterProgram(p)
    \/ \E p \in MainPrograms : run(p)
    \/ executeMove
    \/ executeMath
    \/ executeCompute
    \/ executeDisplay
    \/ handleIf
    \/ handlePerform
    \/ performLoop
    \/ handleCall
    \/ callReturn
    \/ programReturn
    \/ executeExitProgram
    \/ executeGoback
    \/ executeStopRun
    \/ statementsDone

vars == <<phase, ast, programRepository, callStack, heap, nextFid, output,
          errors, isRunning, cics, ctl, debug, wait, nextTransaction, prep,
          semantic, app, peer, storage, validator, parser, lexer>>

Spec == Init /\ [][Next]_vars

\* DISPLAY "A".  PERFORM 100001 TIMES END-PERFORM.  DISPLAY "B".
TimesCeilingProgram ==
    Program(<<"T", "C">>, <<>>, <<>>, <<>>,
            <<DisplayStmt(<<Q(txtA)>>),
              PerformTimes(Num(MAX_LOOP_ITERATIONS + 1), <<>>),
              DisplayStmt(<<Q(txtB)>>)>>)
\* DISPLAY "A".  PERFORM UNTIL 1 > 2 END-PERFORM.  DISPLAY "B".
UntilCeilingProgram ==
    Program(<<"U", "C">>, <<>>, <<>>, <<>>,
            <<DisplayStmt(<<Q(txtA)>>),
              PerformUntil(Cond(Num(1), ">", Num(2)), <<>>),
              DisplayStmt(<<Q(txtB)>>)>>)
CeilingPrograms == {TimesCeilingProgram, UntilCeilingProgram}

\* the runs of the loops that reach MAX_LOOP_ITERATIONS
NextCeiling ==
    \/ \E p \in CeilingPrograms : run(p)
    \/ executeDisplay
    \/ handlePerform
    \/ performLoop
    \/ statementsDone
    \/ programReturn

SpecCeiling == Init /\ [][NextCeiling]_vars

\* the runs of the programs that only store into cells
NextData ==
    \/ \E p \in DataPrograms : run(p)
    \/ executeMove
    \/ executeMath
    \/ executeCompute
    \/ statementsDone
    \/ programReturn

SpecData == Init /\ [][NextData]_vars

\* the lines the sources are made of: COPY of a book the library may lack,
\* COPY inside a literal, in a comment line, on a short line, in lower case
\* after another statement, with REPLACING
SourceLines ==
    {<<" ", " ", " ", " ", " ", " ", " ", "C", "O", "P", "Y", " ", "N", "O", "B", "O", "O",
       "K", ".">>,
     <<" ", " ", " ", " ", " ", " ", " ", "C", "O", "P", "Y", " ", "B", "O", "O", "K",
       ".">>,
     <<" ", " ", " ", " ", " ", " ", " ", " ", " ", " ", " ", "D", "I", "S", "P", "L", "A",
       "Y", " ", "'", " ", "C", "O", "P", "Y", " ", "N", "O", " ", "'", ".">>,
     <<" ", " ", " ", " ", " ", " ", "*", " ", "C", "O", "P", "Y", " ", "N", "O", "B", "O",
       "O", "K", ".">>,
     <<"C", "O", "P", "Y", " ", "X">>,
     <<" ", " ", " ", " ", " ", " ", " ", " ", " ", " ", " ", "m", "o", "v", "e", " ", "a",
       " ", "t", "o", " ", "b", ".", " ", "c", "o", "p", "y", " ", "m", "i", "s", "s",
       ".">>,
     <<" ", " ", " ", " ", " ", " ", " ", "C", "O", "P", "Y", " ", "P", "A", "I", "R", " ",
       "R", "E", "P", "L", "A", "C", "I", "N", "G", " ", "=", "=", "A", "A", "=", "=", " ",
       "B", "Y", " ", "=", "=", "B", "B", "=", "=", ".">>,
     <<" ", " ", " ", " ", " ", " ", " ", "C", "O", "P", "Y", " ", "N", "E", "S", "T",
       ".">>,
     <<" ", " ", " ", " ", " ", " ", " ", "C", "O", "P", "Y", " ", "B", "A", "D", ".">>,
     <<" ", " ", " ", " ", " ", " ", " ", "C", "O", "P", "Y", " ", "W", "I", "D", "E",
       ".">>}
MaxSourceLines == 2
RECURSIVE SourceTexts(_)
SourceTexts(n) ==
    IF n = 1 THEN SourceLines
    ELSE SourceLines \cup {s \o <<LF>> \o l : s \in SourceTexts(n - 1), l \in SourceLines}
\* a line of 73 characters
wideLine ==
    <<" ", " ", " ", " ", " ", " ", " ", "0", "1", " ", "W", "I", "D", "E", "-", "F", "I",
      "E", "L", "D", "-", "W", "I", "T", "H", "-", "A", "-", "L", "O", "N", "G", "-", "N",
      "A", "M", "E", " ", "P", "I", "C", " ", "X", "(", "1", "0", ")", " ", "V", "A", "L",
      "U", "E", " ", "'", "A", "B", "C", "D", "E", "F", "G", "H", "I", "J", "'", ".", " ",
      " ", " ", " ", " ", "X", "X">>
\* BOOK and PAIR are plain, NEST copies a book that is missing, BAD holds a
\* division header, WIDE a line beyond column 72
CopyLibrary ==
    MapSet(MapSet(MapSet(MapSet(MapSet(EmptyMap,
        <<"B", "O", "O", "K">>, <<" ", " ", " ", " ", " ", " ", " ", "0", "1", " ", "A",
          "A", " ", "P", "I", "C", " ", "X", ".">> \o <<LF>> \o <<" ", " ", " ", " ", " ",
          " ", "*", " ", "a", "a">>),
        <<"P", "A", "I", "R">>, <<" ", " ", " ", " ", " ", " ", " ", "0", "1", " ", "A",
          "A", " ", "P", "I", "C", " ", "X", ".">> \o <<LF>> \o <<" ", " ", " ", " ", " ",
          " ", " ", "0", "1", " ", "a", "a", "-", "A", "A", " ", "P", "I", "C", " ", "9",
          ".">>),
        <<"N", "E", "S", "T">>, <<" ", " ", " ", " ", " ", " ", " ", "C", "O", "P", "Y",
          " ", "I", "N", "N", "E", "R", ".">>),
        <<"B", "A", "D">>, <<" ", " ", " ", " ", " ", " ", " ", "D", "A", "T", "A", " ",
          "D", "I", "V", "I", "S", "I", "O", "N", ".">>),
        <<"W", "I", "D", "E">>, wideLine)
Libraries == {EmptyMap, CopyLibrary}

\* the calls of Preprocessor.process
NextPre ==
    \/ \E source \in SourceTexts(MaxSourceLines), library \in Libraries :
           process(source, library)
    \/ processPass
    \/ processEnd

SpecPre == Init /\ [][NextPre]_vars

\* the declarations the validated programs are made of: N numeric, A
\* alphanumeric, N once more as an alphanumeric item
Declarations == {Decl(nN, "9", 1, Undefined), Decl(nA, "X", 2, Undefined),
                 Decl(nN, "X", 3, Undefined)}
MaxDecls == 2
RECURSIVE DeclLists(_)
DeclLists(n) ==
    IF n = 0 THEN {<<>>}
    ELSE {<<>>} \cup {Append(l, d) : l \in DeclLists(n - 1), d \in Declarations}
\* operands as the parser leaves them: a string literal without its quotes
SemanticStatements ==
    {<<>>,
     <<MoveStmt(Num(1), nN), MoveStmt(Str(<<"X">>), nN)>>,
     <<MathStmt("ADD", Str(<<"X">>), nN)>>,
     <<MathStmt("SUBTRACT", Str(nA), nN), MathStmt("MULTIPLY", Num(2), nA),
       MathStmt("DIVIDE", Num(2), nN)>>,
     <<DisplayStmt(<<>>), DisplayStmt(<<Str(nA)>>),
       PerformTimes(Num(0), <<>>), PerformTimes(Str(nA), <<AcceptStmt(nN)>>)>>,
     <<PerformUntil(Cond(Num(1), ">", Num(2)), <<MoveStmt(Str(nA), nN)>>),
       IfElseStmt(Cond(Str(nA), "=", Num(1)),
                  <<ComputeStmt(nN, Binary(Var(nA), "PLUS", Unary(Lit(1))))>>,
                  <<AcceptStmt(nM)>>)>>}
\* the Working-Storage holds up to MaxDecls items, the Linkage Section one
SemanticPrograms ==
    {Program(<<"V">>, ws, ls, <<>>, statements) :
        ws \in DeclLists(MaxDecls), ls \in DeclLists(1),
        statements \in SemanticStatements}

\* the calls of SemanticValidator.validate
NextSemantic == \E p \in SemanticPrograms : validate(p)

SpecSemantic == Init /\ [][NextSemantic]_vars

\* N PIC 9(1) VALUE v.  A PIC X(2) VALUE "HI".  DISPLAY N.  ADD value TO N.
\* DISPLAY N.  -- as the parser builds it, string literals without quotes
AppProgram(v, value) ==
    Program(<<"P">>,
            <<Decl(nN, "9", 1, Num(v)), Decl(nA, "X", 2, Str(<<"H", "I">>))>>,
            <<>>, <<>>,
            <<DisplayStmt(<<Str(nN)>>), MathStmt("ADD", value, nN),
              DisplayStmt(<<Str(nN)>>)>>)
MaxValue == 2
AppPrograms ==
    {AppProgram(v, value) :
        v \in 0..MaxValue,
        value \in {Num(1), Num(9), Str(nN), Str(nA), Str(<<"X">>)}}
\* what Validator.validate says of a layout: nothing, text in columns 73
\* to 80, a paragraph name in area B, a verb in area A
Layouts ==
    {<<>>,
     <<ValidationError(1, 73, "IGYPS0073-I",
                       <<"T", "E", "X", "T", " ", "F", "O", "U", "N", "D", " ", "I", "N",
                         " ", "C", "O", "L", "U", "M", "N", "S", " ", "7", "3", "-", "8",
                         "0", " ", "(", "I", "G", "N", "O", "R", "E", "D", ")">>, "INFO")>>,
     <<ValidationError(6, 12, "IGYPS1011-W",
                       <<"P", "A", "R", "A", "G", "R", "A", "P", "H", " ", "'", "M", "A",
                         "I", "N", ".", "'", " ", "S", "H", "O", "U", "L", "D", " ", "S",
                         "T", "A", "R", "T", " ", "I", "N", " ", "A", "R", "E", "A", " ",
                         "A">>, "WARNING")>>,
     <<ValidationError(7, 8, "IGYPS1088-S",
                       <<"S", "T", "A", "T", "E", "M", "E", "N", "T", " ", "'", "A", "D",
                         "D", "'", " ", "N", "O", "T", " ", "A", "L", "L", "O", "W", "E",
                         "D", " ", "I", "N", " ", "A", "R", "E", "A", " ",
                         "A">>, "ERROR")>>}
syntaxError ==
    <<"I", "G", "Y", "P", "S", "2", "1", "2", "0", "-", "S", " ", "S", "y", "n", "t", "a",
      "x", " ", "E", "r", "r", "o", "r", " ", "a", "t", " ", "L", "i", "n", "e", " ", "7",
      ",", " ", "C", "o", "l", "u", "m", "n", " ", "1", "2", ":", " ", "E", "x", "p", "e",
      "c", "t", "e", "d", " ", "V", "a", "l", "u", "e", ".", " ", "F", "o", "u", "n", "d",
      " ", "T", "O", ".">>
Datasets ==
    {Dataset(NoError, p, l) : p \in AppPrograms, l \in Layouts}
      \cup {Dataset(syntaxError, NoProgram, <<>>)}

\* the compilations App starts and the runs they lead to
NextApp ==
    \/ \E dataset \in Datasets : runCompilationProcess(dataset)
    \/ timeoutRun
    \/ executeDisplay
    \/ executeMath
    \/ statementsDone
    \/ programReturn
    \/ timeoutResult

SpecApp == Init /\ [][NextApp]_vars

(***************************************************************************)
(* Runs that end early: a statement that faults, STOP RUN, GOBACK.  Each   *)
(* program displays A, then reaches the statement at some nesting, and     *)
(* would display B after it.                                               *)
(***************************************************************************)
DisplayA == DisplayStmt(<<Q(txtA)>>)
DisplayB == DisplayStmt(<<Q(txtB)>>)
Always == Cond(Num(1), "=", Num(1))
Never == Cond(Num(1), "=", Num(2))
nU == <<"U">>
nK == <<"K">>
nE == <<"E">>

\* N PIC 9(2) VALUE 5.  A PIC X(2) VALUE "HI".
FaultData == <<Decl(nN, "9", 2, Num(5)), Decl(nA, "X", 2, Q(<<"H", "I">>))>>

ReadFile(file) ==
    ExecCics("READ", [FILE |-> Q(file).s, INTO |-> nA, RIDFLD |-> nN])
\* one statement per fault: an undefined variable, a non-numeric operand,
\* DIVIDE by zero, CALL of a program never registered, CALL with the wrong
\* number of arguments, READ of a file that does not exist
FaultStatements ==
    {MoveStmt(Num(1), nU),
     MathStmt("ADD", Str(nA), nN),
     MathStmt("DIVIDE", Num(0), nN),
     CallStmt(Q(<<"N", "O", "P", "E">>), <<>>),
     CallStmt(Q(SUB.id), <<nA, nN>>),
     ReadFile(<<"N", "O", "F", "I", "L", "E">>)}
FaultMessages ==
    {"IGYPS2001-E REFERENCE TO UNDEFINED VARIABLE",
     "IGZ0020S NON-NUMERIC OPERAND.",
     "DIV 0",
     "IGZ0002S CALL TO UNDEFINED PROGRAM",
     "IGZ0003S PARAMETER MISMATCH.",
     "CICS CONDITION 'NOTFND' NOT HANDLED."}

\* the called program K: the statement inside an IF, B after it
Callee(s) ==
    Program(nK, FaultData, <<>>, <<>>, <<IfStmt(Always, <<s, DisplayB>>), DisplayB>>)
Nestings == {"top", "if", "times", "until", "call"}
Nest(kind, s) ==
    CASE kind = "top" -> <<s>>
      [] kind = "if" -> <<IfStmt(Always, <<s, DisplayB>>)>>
      [] kind = "times" -> <<PerformTimes(Num(2), <<s, DisplayB>>)>>
      [] kind = "until" -> <<PerformUntil(Never, <<s, DisplayB>>)>>
      [] kind = "call" -> <<CallStmt(Q(nK), <<>>)>>
EarlyProgram(kind, s) ==
    Program(nE, FaultData, <<>>, <<>>, <<DisplayA>> \o Nest(kind, s) \o <<DisplayB>>)
FaultPrograms == {EarlyProgram(kind, s) : kind \in Nestings, s \in FaultStatements}
StopPrograms ==
    {EarlyProgram(kind, StopRun) : kind \in Nestings}
      \cup {EarlyProgram(kind, Goback) : kind \in Nestings \ {"call"}}
EarlyLibrary == {SUB} \cup {Callee(s) : s \in FaultStatements \cup {StopRun}}

NextEarly ==
    \/ \E p \in EarlyLibrary : hostRegisterProgram(p)
    \/ \E p \in FaultPrograms \cup StopPrograms : run(p)
    \/ executeMove
    \/ executeMath
    \/ executeDisplay
    \/ handleIf
    \/ handlePerform
    \/ performLoop
    \/ handleCall
    \/ handleCics
    \/ callReturn
    \/ programReturn
    \/ executeGoback
    \/ executeStopRun
    \/ statementsDone

SpecEarly == Init /\ [][NextEarly]_vars
\* an async function whose awaited promises are resolved is run on by the
\* event loop
SpecEarlyLive == SpecEarly /\ WF_vars(NextEarly)

(***************************************************************************)
(* CALL ... USING with two arguments.  PAIR stores 7 into its first        *)
(* parameter and 8 into its second; the caller passes two of its three     *)
(* variables, in any order, the same one twice included.                   *)
(***************************************************************************)
nR == <<"R">>
nPAIR == <<"P", "A", "I", "R">>
nC == <<"C">>
PAIR ==
    Program(nPAIR, <<>>, <<>>, <<nP, nR>>,
            <<MoveStmt(Num(7), nP), MoveStmt(Num(8), nR),
              DisplayStmt(<<Str(nP), Str(nR)>>)>>)
\* A PIC X(2) VALUE "HI".  B PIC X(2).  N PIC 9(1) VALUE 5.
\* CALL "PAIR" USING x y.  DISPLAY A B N.
PairCaller(x, y) ==
    Program(nC,
            <<Decl(nA, "X", 2, Q(<<"H", "I">>)), Decl(nB, "X", 2, Undefined),
              Decl(nN, "9", 1, Num(5))>>,
            <<>>, <<>>,
            <<CallStmt(Q(nPAIR), <<x, y>>), DisplayStmt(<<Str(nA), Str(nB), Str(nN)>>)>>)
PairArguments == {nA, nB, nN}
PairCallers == {PairCaller(x, y) : x \in PairArguments, y \in PairArguments}

NextCall ==
    \/ hostRegisterProgram(PAIR)
    \/ \E p \in PairCallers : run(p)
    \/ executeMove
    \/ executeDisplay
    \/ handleCall
    \/ callReturn
    \/ programReturn
    \/ statementsDone

SpecCall == Init /\ [][NextCall]_vars

(***************************************************************************)
(* Several runs on one Runtime: run is called again after a run returned.  *)
(***************************************************************************)
nW == <<"W">>
nH == <<"H">>
nL == <<"L">>
\* N PIC 9(1) VALUE 5.  M PIC 9(2).  A PIC X(2) VALUE "HI".  B PIC X(3).
\* ADD 1 TO N.  ADD 3 TO M.  MOVE "ZZ" TO A.  MOVE "QQQ" TO B.
\* DISPLAY N M A B.
StorageProgram ==
    Program(nW,
            <<Decl(nN, "9", 1, Num(5)), Decl(nM, "9", 2, Undefined),
              Decl(nA, "X", 2, Q(<<"H", "I">>)), Decl(nB, "X", 3, Undefined)>>,
            <<>>, <<>>,
            <<MathStmt("ADD", Num(1), nN), MathStmt("ADD", Num(3), nM),
              MoveStmt(Q(<<"Z", "Z">>), nA), MoveStmt(Q(<<"Q", "Q", "Q">>), nB),
              DisplayStmt(<<Str(nN), Str(nM), Str(nA), Str(nB)>>)>>)
\* EXEC CICS HANDLE CONDITION NOTFND(L) END-EXEC.  DISPLAY "A".
HandleProgram ==
    Program(nH, FaultData, <<>>, <<>>,
            <<ExecCics("HANDLE_CONDITION", [NOTFND |-> nL]), DisplayA>>)
\* DISPLAY "A".  EXEC CICS READ FILE('NOFILE') INTO(A) RIDFLD(N) END-EXEC.
\* DISPLAY "B".
ReadProgram == EarlyProgram("top", ReadFile(<<"N", "O", "F", "I", "L", "E">>))
RerunPrograms == {StorageProgram, HandleProgram, ReadProgram}

NextRerun ==
    \/ \E p \in RerunPrograms : run(p)
    \/ \E p \in RerunPrograms : runAgain(p)
    \/ executeMove
    \/ executeMath
    \/ executeDisplay
    \/ handleCics
    \/ programReturn
    \/ statementsDone

SpecRerun == Init /\ [][NextRerun]_vars

(***************************************************************************)
(* Runs under the Debugger.  The statements carry their source lines.      *)
(***************************************************************************)
nG == <<"G">>
nT == <<"T">>
\* the called program T, two statements
DebugCallee ==
    Program(nT, <<>>, <<>>, <<>>, <<AtLine(DisplayB, 1), AtLine(DisplayB, 2)>>)
\* 1: DISPLAY "A".  2: CALL "T".  3: IF 1 = 1  4: DISPLAY "B".
\* 5: PERFORM 2 TIMES  6: DISPLAY "A".
DebugProgram ==
    Program(nG, <<>>, <<>>, <<>>,
            <<AtLine(DisplayA, 1),
              AtLine(CallStmt(Q(nT), <<>>), 2),
              AtLine(IfStmt(Always, <<AtLine(DisplayB, 4)>>), 3),
              AtLine(PerformTimes(Num(2), <<AtLine(DisplayA, 6)>>), 5)>>)
\* 1: CALL "T".  2: DISPLAY "A".
DebugCallFirst ==
    Program(nG, <<>>, <<>>, <<>>,
            <<AtLine(CallStmt(Q(nT), <<>>), 1), AtLine(DisplayA, 2)>>)
DebugPrograms == {DebugProgram, DebugCallFirst}
\* the lines the host sets breakpoints on
MaxLine == 2

NextDebug ==
    \/ attachDebugger
    \/ hostRegisterProgram(DebugCallee)
    \/ \E p \in DebugPrograms : run(p)
    \/ onStatement
    \/ step
    \/ next
    \/ continue
    \/ pause
    \/ \E line \in 1..MaxLine : toggleBreakpoint(line)
    \/ executeDisplay
    \/ handleIf
    \/ handlePerform
    \/ performLoop
    \/ handleCall
    \/ callReturn
    \/ programReturn
    \/ statementsDone

SpecDebug == Init /\ [][NextDebug]_vars

\* the host pauses the adapter before the run and issues nothing but NEXT
\* from then on
NextStepOver ==
    \/ attachDebugger
    \/ hostRegisterProgram(DebugCallee)
    \/ \E p \in DebugPrograms : run(p)
    \/ onStatement
    \/ next
    \/ pause
    \/ executeDisplay
    \/ handleIf
    \/ handlePerform
    \/ performLoop
    \/ handleCall
    \/ callReturn
    \/ programReturn
    \/ statementsDone

SpecStepOver == Init /\ [][NextStepOver]_vars

(***************************************************************************)
(* ACCEPT: the host answers the inputHandler with a text, or with null.    *)
(***************************************************************************)
nI == <<"I">>
\* A PIC X(2) VALUE "HI".  B PIC X(2) VALUE "YO".  N PIC 9(2).
\* ACCEPT A.  DISPLAY A.  ACCEPT N.  DISPLAY N.
AcceptProgram ==
    Program(nI,
            <<Decl(nA, "X", 2, Q(<<"H", "I">>)), Decl(nB, "X", 2, Q(<<"Y", "O">>)),
              Decl(nN, "9", 2, Undefined)>>,
            <<>>, <<>>,
            <<AcceptStmt(nA), DisplayStmt(<<Str(nA)>>),
              AcceptStmt(nN), DisplayStmt(<<Str(nN)>>)>>)
\* what the user types: the name of a variable, a word, a number, a quoted
\* text, a quoted number, nothing
AcceptTexts == {nA, nB, nN, <<"O", "K">>, <<"7">>, <<"'", "Q", "'">>, <<"'", "7",
                              "'">>, <<>>}
AcceptInputs == {Str(s) : s \in AcceptTexts} \cup {Null}

NextAccept ==
    \/ run(AcceptProgram)
    \/ handleAccept
    \/ \E val \in AcceptInputs : handleInputModalSubmit(val)
    \/ executeDisplay
    \/ programReturn
    \/ statementsDone

SpecAccept == Init /\ [][NextAccept]_vars

(***************************************************************************)
(* EXEC CICS SEND MAP and RECEIVE MAP: the host answers the screen-input   *)
(* callback with the screen the user submitted.                            *)
(***************************************************************************)
nNAME == <<"N", "A", "M", "E">>
nAGE == <<"A", "G", "E">>
nOTHER == <<"O", "T", "H", "E", "R">>
nMAP1 == <<"M", "A", "P", "1">>
nSET1 == <<"S", "E", "T", "1">>
nS == <<"S">>
\* the fields of MAP1: NAME in row 1 from column 1, AGE in row 1 from
\* column 5, and NOTE, which names no variable, in row 2
Map1 ==
    BMSMapDefinition(nSET1, nMAP1,
        <<BMSField(nNAME, 1, 1, 3), BMSField(nAGE, 1, 5, 2),
          BMSField(<<"N", "O", "T", "E">>, 2, 1, 2)>>)
Map1Params == [MAP |-> Q(nMAP1).s, MAPSET |-> Q(nSET1).s]
\* NAME PIC X(3) VALUE "AL".  AGE PIC 9(2) VALUE 5.  OTHER PIC X(2) VALUE "HI".
\* SEND MAP.  RECEIVE MAP.  DISPLAY NAME AGE OTHER.  RECEIVE MAP.
\* DISPLAY NAME AGE OTHER.
ScreenProgram ==
    WithMaps(
        Program(nS,
                <<Decl(nNAME, "X", 3, Q(<<"A", "L">>)), Decl(nAGE, "9", 2, Num(5)),
                  Decl(nOTHER, "X", 2, Q(<<"H", "I">>))>>,
                <<>>, <<>>,
                <<ExecCics("SEND_MAP", Map1Params),
                  ExecCics("RECEIVE_MAP", Map1Params),
                  DisplayStmt(<<Str(nNAME), Str(nAGE), Str(nOTHER)>>),
                  ExecCics("RECEIVE_MAP", Map1Params),
                  DisplayStmt(<<Str(nNAME), Str(nAGE), Str(nOTHER)>>)>>),
        <<Map1>>)
\* the screens the user submits: a name and an age typed into the fields
TypedNames == {<<"B", "O", "B">>, <<" ", " ", " ">>}
TypedAges == {<<"4", "2">>, <<"7", " ">>, <<" ", " ">>, <<"A", "B">>}
Typed(name, age) ==
    writeToScreen(writeToScreen(clearScreen, 1, 1, name), 1, 5, age)
FinalBuffers == {Typed(name, age) : name \in TypedNames, age \in TypedAges}

NextScreen ==
    \/ run(ScreenProgram)
    \/ handleCics
    \/ \E finalBuffer \in FinalBuffers : handleCicsInputSubmit(finalBuffer)
    \/ executeDisplay
    \/ programReturn
    \/ statementsDone

SpecScreen == Init /\ [][NextScreen]_vars

(***************************************************************************)
(* COPY cycles: SELF copies itself, PING and PONG copy each other, CHAIN   *)
(* copies BOOK, which copies nothing.                                      *)
(***************************************************************************)
CycleLibrary ==
    MapSet(MapSet(MapSet(MapSet(MapSet(EmptyMap,
        <<"S", "E", "L", "F">>, <<" ", " ", " ", " ", " ", " ", " ", "C", "O", "P", "Y",
          " ", "S", "E", "L", "F", ".">>),
        <<"P", "I", "N", "G">>, <<" ", " ", " ", " ", " ", " ", " ", "C", "O", "P", "Y",
          " ", "P", "O", "N", "G", ".">>),
        <<"P", "O", "N", "G">>, <<" ", " ", " ", " ", " ", " ", " ", "0", "1", " ", "X",
          " ", "P", "I", "C", " ", "X", ".">> \o <<LF>> \o <<" ", " ", " ", " ", " ", " ",
          " ", "C", "O", "P", "Y", " ", "P", "I", "N", "G", ".">>),
        <<"C", "H", "A", "I", "N">>, <<" ", " ", " ", " ", " ", " ", " ", "C", "O", "P",
          "Y", " ", "B", "O", "O", "K", ".">>),
        <<"B", "O", "O", "K">>, <<" ", " ", " ", " ", " ", " ", " ", "0", "1", " ", "A",
          "A", " ", "P", "I", "C", " ", "X", ".">>)
CycleSources ==
    {<<" ", " ", " ", " ", " ", " ", " ", "C", "O", "P", "Y", " ", "S", "E", "L", "F",
       ".">>,
     <<" ", " ", " ", " ", " ", " ", " ", "C", "O", "P", "Y", " ", "P", "I", "N", "G",
       ".">>,
     <<" ", " ", " ", " ", " ", " ", " ", "C", "O", "P", "Y", " ", "P", "O", "N", "G",
       ".">> \o <<LF>> \o <<" ", " ", " ", " ", " ", " ", " ", "C", "O", "P", "Y", " ", "S",
       "E", "L", "F", ".">>,
     <<" ", " ", " ", " ", " ", " ", " ", "C", "O", "P", "Y", " ", "C", "H", "A", "I", "N",
       ".">>,
     <<" ", " ", " ", " ", " ", " ", " ", "C", "O", "P", "Y", " ", "C", "H", "A", "I", "N",
       ".">> \o <<LF>> \o <<" ", " ", " ", " ", " ", " ", " ", "C", "O", "P", "Y", " ", "N",
       "O", "B", "O", "O", "K", ".">>,
     <<" ", " ", " ", " ", " ", " ", " ", "0", "1", " ", "A", "A", " ", "P", "I", "C", " ",
       "X", ".">>}

NextCycle ==
    \/ \E source \in CycleSources : process(source, CycleLibrary)
    \/ processPass
    \/ processEnd

SpecCycle == Init /\ [][NextCycle]_vars
\* process runs to its end once called, its loop being synchronous code:
\* weak fairness of the turn of the loop and of its exit.  The enabling
\* condition of either is its guard, for a turn counts loops up and the exit
\* changes the phase, and is written out as that guard.
passEnabled == prep.phase = "scanning" /\ prep.hasChanges /\ prep.loops < MAX_LOOPS
endEnabled == prep.phase = "scanning" /\ ~(prep.hasChanges /\ prep.loops < MAX_LOOPS)
SpecCycleLive ==
    /\ SpecCycle
    /\ ([]<>~passEnabled \/ []<><<processPass>>_vars)
    /\ ([]<>~endEnabled \/ []<><<processEnd>>_vars)

(***************************************************************************)
(* Two instances, each running one of the CICS programs: HANDLE CONDITION  *)
(* in one, a READ that raises NOTFND and a READ that finds its record in   *)
(* the other.                                                              *)
(***************************************************************************)
\* N PIC 9(5) VALUE 1.  A PIC X(7).
\* EXEC CICS READ FILE('customers.vsam') INTO(A) RIDFLD(N) END-EXEC.
\* DISPLAY A.
FoundProgram ==
    Program(<<"F">>,
            <<Decl(nN, "X", 5, Q(<<"0", "0", "0", "0",
                                   "1">>)), Decl(nA, "X", 7, Undefined)>>,
            <<>>, <<>>,
            <<ReadFile(customersVsam), DisplayStmt(<<Str(nA)>>)>>)
\* EXEC CICS HANDLE CONDITION NOTFND(L) END-EXEC.
\* EXEC CICS READ FILE('NOFILE') INTO(A) RIDFLD(N) END-EXEC.  DISPLAY "B".
HandledProgram ==
    Program(nH, FaultData, <<>>, <<>>,
            <<ExecCics("HANDLE_CONDITION", [NOTFND |-> nL]),
              ReadFile(<<"N", "O", "F", "I", "L", "E">>), DisplayB>>)
InstancePrograms == {ReadProgram, HandledProgram, FoundProgram}

NextInstances ==
    \/ \E p \in InstancePrograms : run(p)
    \/ switchInstance
    \/ executeDisplay
    \/ handleCics
    \/ programReturn
    \/ statementsDone

SpecInstances == Init /\ [][NextInstances]_vars

(***************************************************************************)
(* The lines the column validator is explored on: an indicator, a first    *)
(* word starting in a column of Area A or Area B, and text in the columns  *)
(* 73-80 or none; alone, or after the header of the Procedure Division.    *)
(***************************************************************************)
Indicators == {" ", "*", "/", "-", "D", "d", "X", "1"}
FirstWords ==
    {<<"D", "A", "T", "A">>, <<"S", "e", "c", "t", "i", "o", "n">>, <<"F", "D">>, <<"P",
       "R", "O", "G", "R", "A", "M", "-", "I", "D", ".">>, <<"0", "1">>, <<"7",
       "7">>, <<"1">>, <<"6", "6">>, <<"8", "8">>,
     <<"0", "5">>, <<"M", "O", "V", "E">>, <<"d", "i", "s", "p", "l", "a", "y">>, <<"E",
       "N", "D", "-", "I", "F">>, <<"S", "T", "O", "P", ".">>, <<"P", "A", "R", "A",
       ".">>, <<"T", "O", "T", "A", "L">>}
\* the blanks before the first word: it starts in column 8, 11, 12 or 30
Margins == {0, 3, 4, 22}
Blanks(n) == [k \in 1..n |-> " "]
LayoutLine(indicator, margin, word, overflow) ==
    IF overflow
    THEN padEnd(Blanks(6) \o <<indicator>> \o Blanks(margin) \o word \o <<" ", "X",
                                                                          ".">>, 72)
         \o <<"0", "0", "0", "0", "0", "1", "0", "0">>
    ELSE Blanks(6) \o <<indicator>> \o Blanks(margin) \o word \o <<" ", "X", ".">>
\* lines too short for an indicator or for code, a blank line, a word that
\* runs across column 72
OddLines ==
    {<<>>, <<"M", "O", "V", "E">>, <<" ", " ", " ", " ", " ", " ", "X">>, <<" ", " ", " ",
             " ", " ", " ", " ">>, Blanks(80),
     Blanks(69) \o <<"D", "A", "T", "A", " ", "D", "I", "V", "I", "S", "I", "O", "N",
                     ".">>, Blanks(72) \o <<"M", "O", "V", "E">>}
LayoutLines ==
    {LayoutLine(indicator, margin, word, overflow) :
         indicator \in Indicators, margin \in Margins, word \in FirstWords,
         overflow \in BOOLEAN}
      \cup OddLines
procedureDivision == Blanks(7) \o <<"P", "R", "O", "C", "E", "D", "U", "R", "E", " ", "D",
                                    "I", "V", "I", "S", "I", "O", "N", ".">>
LayoutSources == LayoutLines \cup {procedureDivision \o <<LF>> \o l : l \in LayoutLines}

\* validate is a pure function of its argument: one call on each source
NextColumns == ~validator.called /\ \E source \in LayoutSources : validateSource(source)

SpecColumns == Init /\ [][NextColumns]_vars

(***************************************************************************)
(* Stores into alphanumeric cells: MOVE with and without reference         *)
(* modification, ACCEPT, RECEIVE MAP into fields wider and narrower than   *)
(* their cells, READ INTO a cell shorter and a cell longer than the        *)
(* record, CALL of FILL with two cells or the same cell twice.             *)
(***************************************************************************)
nFILL == <<"F", "I", "L", "L">>
\* A PIC X(4) VALUE "ABCDEF".  MOVE "LONGER" TO P.  MOVE "WXYZ" TO R(2:4).
FILL ==
    Program(nFILL, <<Decl(nA, "X", 4, Q(<<"A", "B", "C", "D", "E",
                                          "F">>))>>, <<>>, <<nP, nR>>,
            <<MoveStmt(Q(<<"L", "O", "N", "G", "E", "R">>), nP), MoveSlice(Q(<<"W", "X",
                           "Y", "Z">>), nR, 2, 4)>>)
ReadInto(target) ==
    ExecCics("READ", [FILE |-> Q(customersVsam).s, INTO |-> target, RIDFLD |-> nK])
\* the fields of CELLS: A, three columns wide, and B, two columns wide
CellMap ==
    BMSMapDefinition(nSET1, <<"C", "E", "L", "L",
                              "S">>, <<BMSField(nA, 1, 1, 3), BMSField(nB, 1, 5, 2)>>)
CellMapParams == [MAP |-> Q(<<"C", "E", "L", "L", "S">>).s, MAPSET |-> Q(nSET1).s]
\* the slices (start:len) of the MOVE into B: before, at, across and beyond
\* the three characters of B
CellSlices == {<<0, 1>>, <<1, 0>>, <<2, 1>>, <<3, 4>>, <<5, 2>>, <<1, 5>>}
CellStatements ==
    {MoveSlice(Q(<<"W", "X", "Y", "Z">>), nB, sl[1], sl[2]) : sl \in CellSlices}
      \cup {MoveStmt(Q(<<"H", "E", "L", "L",
                         "O">>), nA), MoveStmt(Q(<<>>), nB), MoveStmt(Str(nL), nB),
            MoveSlice(Num(7), nA, 2, 1),
            AcceptStmt(nA), AcceptStmt(nB),
            ReadInto(nA), ReadInto(nL),
            ExecCics("RECEIVE_MAP", CellMapParams),
            CallStmt(Q(nFILL), <<nA, nB>>), CallStmt(Q(nFILL), <<nB, nA>>),
            CallStmt(Q(nFILL), <<nA, nA>>)}
\* A PIC X(2) VALUE "HI".  B PIC X(3).  K PIC X(5) VALUE "00001".
\* L PIC X(26).
CellProgram(statements) ==
    WithMaps(
        Program(nC,
                <<Decl(nA, "X", 2, Q(<<"H", "I">>)), Decl(nB, "X", 3, Undefined),
                  Decl(nK, "X", 5, Q(<<"0", "0", "0", "0",
                                       "1">>)), Decl(nL, "X", 26, Undefined)>>,
                <<>>, <<>>, statements),
        <<CellMap>>)
CellPrograms ==
    {CellProgram(<<s>>) : s \in CellStatements}
      \cup {CellProgram(<<s, t>>) : s \in CellStatements, t \in CellStatements}

NextCells ==
    \/ hostRegisterProgram(FILL)
    \/ \E p \in CellPrograms : run(p)
    \/ executeMove
    \/ handleAccept
    \/ \E val \in AcceptInputs : handleInputModalSubmit(val)
    \/ handleCics
    \/ \E finalBuffer \in FinalBuffers : handleCicsInputSubmit(finalBuffer)
    \/ handleCall
    \/ callReturn
    \/ programReturn
    \/ statementsDone

SpecCells == Init /\ [][NextCells]_vars

(***************************************************************************)
(* EXIT PROGRAM and GOBACK in a called program: in an IF, in a PERFORM     *)
(* block, in an IF in a PERFORM, as the last statement, and in a program   *)
(* called by a called program.  Every callee has statements after the      *)
(* exit that store into N and display it; the caller has an N of its own.  *)
(***************************************************************************)
Remaining == <<MoveStmt(Num(9), nN), DisplayStmt(<<Str(nN)>>)>>
Leaving(id, statements) ==
    Program(id, <<Decl(nN, "9", 1, Num(1))>>, <<>>, <<>>, statements)
\* IF 1 = 1 EXIT PROGRAM END-IF.  MOVE 9 TO N.  DISPLAY N.
LEAVEX == Leaving(<<"L", "E", "A", "V", "E", "X">>, <<IfStmt(Always, <<ExitProgram>>)>>
                    \o Remaining)
\* PERFORM GOBACK END-PERFORM.  MOVE 9 TO N.  DISPLAY N.
LEAVEG == Leaving(<<"L", "E", "A", "V", "E", "G">>, <<PerformBlock(<<Goback>>)>>
                    \o Remaining)
\* PERFORM 2 TIMES IF 1 = 1 GOBACK END-IF DISPLAY N END-PERFORM.
LEAVEN ==
    Leaving(<<"L", "E", "A", "V", "E", "N">>,
            <<PerformTimes(Num(2), <<IfStmt(Always, <<Goback>>),
                                     DisplayStmt(<<Str(nN)>>)>>)>>)
\* MOVE 9 TO N.  DISPLAY N.  EXIT PROGRAM.
LEAVEL == Leaving(<<"L", "E", "A", "V", "E", "L">>, Remaining \o <<ExitProgram>>)
\* CALL "LEAVEX".  DISPLAY N.
MIDDLE ==
    Program(<<"M", "I", "D", "D", "L", "E">>, <<Decl(nN, "9", 1, Num(3))>>, <<>>, <<>>,
            <<CallStmt(Q(<<"L", "E", "A", "V", "E",
                           "X">>), <<>>), DisplayStmt(<<Str(nN)>>)>>)
Leavers == {LEAVEX, LEAVEG, LEAVEN, LEAVEL, MIDDLE}
\* N PIC 9(1) VALUE 5.  CALL callee.  DISPLAY N.
ExitCaller(callee) ==
    Program(nC, <<Decl(nN, "9", 1, Num(5))>>, <<>>, <<>>,
            <<CallStmt(Q(callee), <<>>), DisplayStmt(<<Str(nN)>>)>>)
ExitCallers == {ExitCaller(p.id) : p \in Leavers}

NextExit ==
    \/ \E p \in Leavers : hostRegisterProgram(p)
    \/ \E p \in ExitCallers : run(p)
    \/ executeMove
    \/ executeDisplay
    \/ handleIf
    \/ handlePerform
    \/ performLoop
    \/ handleCall
    \/ callReturn
    \/ programReturn
    \/ executeExitProgram
    \/ executeGoback
    \/ statementsDone

SpecExit == Init /\ [][NextExit]_vars

(***************************************************************************)
(* COMPUTE with a division: by a cell holding zero, by the literal zero,   *)
(* by a product that is zero, by one; the quotient stored as it is or      *)
(* used further in the expression.                                         *)
(***************************************************************************)
nZ == <<"Z">>
Quotients ==
    {Binary(Var(nN), "SLASH", Var(nZ)),
     Binary(Var(nN), "SLASH", Lit(0)),
     Binary(Lit(6), "SLASH", Binary(Var(nN), "ASTERISK", Var(nZ))),
     Binary(Var(nN), "SLASH", Lit(1)),
     Unary(Binary(Var(nN), "SLASH", Var(nZ))),
     Binary(Binary(Var(nN), "SLASH", Var(nZ)), "PLUS", Lit(1)),
     Binary(Binary(Var(nN), "SLASH", Var(nZ)), "MINUS",
            Binary(Var(nN), "SLASH", Var(nZ))),
     Binary(Lit(1), "SLASH", Binary(Var(nN), "SLASH", Var(nZ)))}
Dividends == {0, 3, 5, 9}
\* N PIC 9(1) VALUE v.  Z PIC 9(1) VALUE 0.  M PIC 9(2) VALUE 7.
\* COMPUTE M = e.  DISPLAY M.
QuotientProgram(v, e) ==
    Program(<<"Q">>,
            <<Decl(nN, "9", 1, Num(v)), Decl(nZ, "9", 1, Num(0)),
              Decl(nM, "9", 2, Num(7))>>,
            <<>>, <<>>,
            <<ComputeStmt(nM, e), DisplayStmt(<<Str(nM)>>)>>)
QuotientPrograms == {QuotientProgram(v, e) : v \in Dividends, e \in Quotients}

NextQuotient ==
    \/ \E p \in QuotientPrograms : run(p)
    \/ executeCompute
    \/ executeDisplay
    \/ programReturn
    \/ statementsDone

SpecQuotient == Init /\ [][NextQuotient]_vars

(***************************************************************************)
(* The token lists the Parser is explored on: the header of the Procedure  *)
(* Division, then up to MaxItems of the phrases below, one per line, then  *)
(* the end of file.                                                        *)
(***************************************************************************)
MaxItems == 4
Phrases ==
    {<<<<"GOBACK", <<"G", "O", "B", "A", "C", "K">>>>>>,
     <<<<"DOT", <<".">>>>>>,
     <<<<"IF", <<"I", "F">>>>, <<"IDENTIFIER", nN>>, <<"EQUALS", <<"=">>>>,
       <<"LITERAL_NUMBER", <<"1">>>>>>,
     <<<<"ELSE", <<"E", "L", "S", "E">>>>>>,
     <<<<"END_IF", <<"E", "N", "D", "-", "I", "F">>>>>>,
     <<<<"PERFORM", <<"P", "E", "R", "F", "O", "R", "M">>>>>>,
     <<<<"END_PERFORM", <<"E", "N", "D", "-", "P", "E", "R", "F", "O", "R", "M">>>>>>,
     <<<<"IDENTIFIER", <<"P", "A", "R", "A">>>>>>,
     <<<<"DISPLAY", <<"D", "I", "S", "P", "L", "A",
         "Y">>>>, <<"LITERAL_STRING", <<"X">>>>>>}
\* the k-th phrase stands on line k + 1, its words four columns apart from
\* column 12 on
PhraseTokens(phrase, k) ==
    [j \in 1..Len(phrase) |-> Token(phrase[j][1], phrase[j][2], k + 1, 8 + 4 * j)]
RECURSIVE LinesFrom(_, _)
LinesFrom(phrases, k) ==
    IF k > Len(phrases) THEN <<Token("EOF", <<"E", "O", "F">>, Len(phrases) + 2, 0)>>
    ELSE PhraseTokens(phrases[k], k) \o LinesFrom(phrases, k + 1)
HeaderTokens ==
    <<Token("PROCEDURE", <<"P", "R", "O", "C", "E", "D", "U", "R",
                           "E">>, 1, 8), Token("DIVISION", <<"D", "I", "V", "I", "S", "I",
                           "O", "N">>, 1, 18),
      Token("DOT", <<".">>, 1, 26)>>
TokenLists ==
    {HeaderTokens \o LinesFrom(phrases, 1) :
         phrases \in UNION {[1..n -> Phrases] : n \in 0..MaxItems}}
      \cup {LinesFrom(<<>>, 1),
            <<Token("PROCEDURE", <<"P", "R", "O", "C", "E", "D", "U", "R",
                                   "E">>, 1, 8), Token("DIVISION", <<"D", "I", "V", "I",
                                   "S", "I", "O", "N">>, 1, 18),
              Token("USING", <<"U", "S", "I", "N",
                               "G">>, 1, 27), Token("IDENTIFIER", nP, 1, 33),
              Token("IDENTIFIER", nR, 1, 35), Token("DOT", <<".">>, 1, 36),
              Token("STOP", <<"S", "T", "O", "P">>, 2, 12), Token("RUN", <<"R", "U",
                              "N">>, 2, 17),
              Token("DOT", <<".">>, 2, 20), Token("EOF", <<"E", "O", "F">>, 3, 0)>>}

NextParse ==
    \/ \E tokens \in TokenLists : parse(tokens)
    \/ procedureTurn
    \/ parseReturn

SpecParse == Init /\ [][NextParse]_vars
\* parse runs to its end once called: weak fairness of the turn of the loop
\* and of the return
SpecParseLive == SpecParse /\ WF_vars(procedureTurn) /\ WF_vars(parseReturn)

(***************************************************************************)
(* Conditions: a cell of two characters, blank or holding digits or        *)
(* letters, a numeric cell, numbers and literals, compared by =, > and <   *)
(* in an IF with and without ELSE.                                         *)
(***************************************************************************)
ComparedTexts == {Undefined, Q(<<"7">>), Q(<<"0", "7">>), Q(<<"A", "B">>), Q(<<"1", "0">>)}
ComparedOperands ==
    {Str(nA), Str(nN), Num(0), Num(7), Num(10), Q(<<>>), Q(<<" ">>), Q(<<"7",
                                                             " ">>), Q(<<"A", "B">>)}
\* A PIC X(2) [VALUE text].  N PIC 9(2) VALUE 7.
\* IF left operator right DISPLAY "A" [ELSE DISPLAY "B"] END-IF.  DISPLAY "C".
CompareProgram(text, cond, hasElse) ==
    Program(<<"Q">>,
            <<Decl(nA, "X", 2, text), Decl(nN, "9", 2, Num(7))>>,
            <<>>, <<>>,
            <<IF hasElse
              THEN IfElseStmt(cond, <<DisplayStmt(<<Q(txtA)>>)>>,
                              <<DisplayStmt(<<Q(txtB)>>)>>)
              ELSE IfStmt(cond, <<DisplayStmt(<<Q(txtA)>>)>>),
              DisplayStmt(<<Q(<<"C">>)>>)>>)
ComparePrograms ==
    {CompareProgram(text, Cond(left, operator, right), hasElse) :
         text \in ComparedTexts, left \in ComparedOperands, right \in ComparedOperands,
         operator \in {"=", ">", "<"}, hasElse \in BOOLEAN}

NextCompare ==
    \/ \E p \in ComparePrograms : run(p)
    \/ handleIf
    \/ executeDisplay
    \/ programReturn
    \/ statementsDone

SpecCompare == Init /\ [][NextCompare]_vars

(***************************************************************************)
(* EXEC CICS READ: of a file that exists or not, by a key that is in the   *)
(* file or not, once or twice, after a HANDLE CONDITION for NOTFND, for    *)
(* another condition, or after none.                                       *)
(***************************************************************************)
nNOFILE == <<"N", "O", "F", "I", "L", "E">>
ReadBy(file, key) ==
    ExecCics("READ", [FILE |-> Q(file).s, INTO |-> nA, RIDFLD |-> key])
Reads == {ReadBy(file, key) : file \in {nNOFILE, customersVsam}, key \in {nN, nM}}
ReadLists == {<<r>> : r \in Reads} \cup {<<r, s>> : r, s \in Reads}
Handles ==
    {<<>>, <<ExecCics("HANDLE_CONDITION", [NOTFND |-> nL])>>,
     <<ExecCics("HANDLE_CONDITION", [ERROR |-> nL])>>}
\* N PIC X(5) VALUE "00001".  M PIC X(5) VALUE "00009".  A PIC X(7) VALUE "INITIAL".
\* the HANDLE CONDITION, if any; the READs; DISPLAY A.
ReadingProgram(handle, reads) ==
    Program(<<"R">>,
            <<Decl(nN, "X", 5, Q(<<"0", "0", "0", "0", "1">>)), Decl(nM, "X", 5, Q(<<"0",
                                   "0", "0", "0", "9">>)),
              Decl(nA, "X", 7, Q(<<"I", "N", "I", "T", "I", "A", "L">>))>>,
            <<>>, <<>>,
            handle \o reads \o <<DisplayStmt(<<Str(nA)>>)>>)
ReadingPrograms == {ReadingProgram(handle, reads) : handle \in Handles, reads \in ReadLists}

NextRead ==
    \/ \E p \in ReadingPrograms : run(p)
    \/ handleCics
    \/ executeDisplay
    \/ programReturn
    \/ statementsDone

SpecRead == Init /\ [][NextRead]_vars

(***************************************************************************)
(* A chain of copybooks: B1 copies B2, which copies B3, and so on to the   *)
(* last, which copies nothing.  A source that copies Bk is expanded in     *)
(* ChainDepth - k + 1 passes, and the pass after those finds no COPY.      *)
(***************************************************************************)
ChainDepth == 99
ChainName(k) == <<"B">> \o NatToDigits(k)
CopyLine(name) == <<" ", " ", " ", " ", " ", " ", " ", "C", "O", "P", "Y", " ">> \o name
                    \o <<".">>
ChainLibrary ==
    [name \in {ChainName(k) : k \in 1..ChainDepth} |->
        LET k == CHOOSE k \in 1..ChainDepth : ChainName(k) = name
        IN  IF k < ChainDepth THEN CopyLine(ChainName(k + 1))
            ELSE <<" ", " ", " ", " ", " ", " ", " ", "0", "1", " ", "A", "A", " ", "P",
                   "I", "C", " ", "X", ".">>]
\* the sources copy the first, the second, a middle and the last book
ChainStarts == {1, 2, 3, 50, 98, 99}

NextChain ==
    \/ \E k \in ChainStarts : process(CopyLine(ChainName(k)), ChainLibrary)
    \/ processPass
    \/ processEnd

SpecChain == Init /\ [][NextChain]_vars

(***************************************************************************)
(* COMPUTE of a quotient, positive or negative, whole or with a fraction,  *)
(* within the digits of the target or beyond them.                         *)
(***************************************************************************)
Numerators == {0, 1, 3, 7, 9, 250}
Divisors == {1, 2, 4}
\* v / d and (0 - v) / d
Fraction(v, d, negative) ==
    IF negative THEN Binary(Binary(Lit(0), "MINUS", Lit(v)), "SLASH", Lit(d))
    ELSE Binary(Lit(v), "SLASH", Lit(d))
\* M PIC 9(2) VALUE 7.  COMPUTE M = e.  DISPLAY M.
FractionProgram(e) ==
    Program(<<"T">>, <<Decl(nM, "9", 2, Num(7))>>, <<>>, <<>>,
            <<ComputeStmt(nM, e), DisplayStmt(<<Str(nM)>>)>>)
FractionPrograms ==
    {FractionProgram(Fraction(v, d, negative)) :
         v \in Numerators, d \in Divisors, negative \in BOOLEAN}

NextFraction ==
    \/ \E p \in FractionPrograms : run(p)
    \/ executeCompute
    \/ executeDisplay
    \/ programReturn
    \/ statementsDone

SpecFraction == Init /\ [][NextFraction]_vars

(***************************************************************************)
(* MOVE of a literal: a number, or a text that is the name of no item,     *)
(* into a Numeric or an Alphanumeric item.                                 *)
(***************************************************************************)
MovedLiterals ==
    {Num(0), Num(1), Num(42), Num(-7),
     Str(<<"X">>), Str(<<"H", "E", "L", "L", "O">>), Str(<<"1", "2">>), Str(<<"0", "0",
           "7">>), Str(<<"-", "5">>), Str(<<" ", "7", " ">>),
     Str(<<"1", "A">>), Str(<<" ">>), Str(<<>>)}
MoveTargets == {nN, nA}
ItemLengths == {1, 2, 3}
\* N PIC 9(n).  A PIC X(a).  MOVE literal TO target.
LiteralMoveProgram(n, a, literal, target) ==
    Program(<<"V">>,
            <<Decl(nN, "9", n, Undefined), Decl(nA, "X", a, Undefined)>>,
            <<>>, <<>>,
            <<AtLine(MoveStmt(literal, target), 3)>>)
LiteralMovePrograms ==
    {LiteralMoveProgram(n, a, literal, target) :
         n \in ItemLengths, a \in ItemLengths, literal \in MovedLiterals,
         target \in MoveTargets}

NextLiteralMove == \E p \in LiteralMovePrograms : validate(p)

SpecLiteralMove == Init /\ [][NextLiteralMove]_vars

(***************************************************************************)
(* The sources the Lexer is explored on.  A line is a sequence area, an    *)
(* indicator, the text of the columns 8 to 72 and what stands beyond       *)
(* column 72; a source is one line, or one of a few first lines and a      *)
(* second line.                                                            *)
(***************************************************************************)
SequenceAreas == {<<" ", " ", " ", " ", " ", " ">>, <<"A", "B", "'", "D", "(", "F">>}
LexIndicators == {" ", "*", "/", "D"}
\* the last holds MOV in the columns 70 to 72
CodeTexts ==
    {<<" ", " ", " ", " ", "M", "O", "V", "E", " ", "'", "A", "'", " ", "T", "O", " ", "X",
       ".">>,
     <<" ", " ", " ", " ", "D", "I", "S", "P", "L", "A", "Y", " ", "\"", "i", "t", "'", "s",
       "\"", " ", "1", "2", ".", "5", " ", "n", "-", "1", ".">>,
     <<" ", " ", " ", " ", "C", "O", "M", "P", "U", "T", "E", " ", "N", " ", "=", " ", "(",
       "A", " ", "+", " ", "1", ")", " ", "*", "*", " ", "2", " ", "/", " ", "B", ".">>,
     <<" ", " ", " ", " ", "d", "i", "s", "p", "l", "a", "y", " ", "'", "o", "p", "e",
       "n">>,
     <<" ", " ", " ", " ", "X", " ", "#", " ", "Y">>,
     <<>>,
     Blanks(62) \o <<"M", "O", "V">>}
\* nothing beyond the text, the text filled with blanks to column 72, and
\* the text filled and followed by more text
Overflows == {"none", "filled", "text"}
SourceLine(area, indicator, text, overflow) ==
    CASE overflow = "none" -> area \o <<indicator>> \o text
      [] overflow = "filled" -> padEnd(area \o <<indicator>> \o text, 72)
      [] OTHER -> padEnd(area \o <<indicator>> \o text, 72) \o <<"E", " ", "'", "X", "'",
                                                                 " ", "T", "O", " ", "Y",
                                                                 ".">>
\* lines too short to hold an indicator
ShortLines == {<<>>, <<"M", "O", "V", "E">>, <<" ", " ", " ", " ", " ", " ">>, <<"'", "A",
                       "'", " ", "(">>}
LexLines ==
    {SourceLine(area, indicator, text, overflow) :
         area \in SequenceAreas, indicator \in LexIndicators, text \in CodeTexts,
         overflow \in Overflows}
      \cup ShortLines
FirstLines ==
    {SourceLine(<<"A", "B", "'", "D", "(", "F">>, " ", <<" ", " ", " ", " ", "M", "O", "V",
                  "E", " ", "'", "A", "'", " ", "T", "O", " ", "X", ".">>, "text"),
     SourceLine(<<"A", "B", "'", "D", "(", "F">>, "*", <<" ", " ", " ", " ", "X", " ", "#",
                  " ", "Y">>, "text")}
LexSources == LexLines \cup {first \o <<LF>> \o l : first \in FirstLines, l \in LexLines}

NextLex == \E source \in LexSources : tokenize(source)

SpecLex == Init /\ [][NextLex]_vars

(***************************************************************************)
(* From the source text to the run: the Lexer makes the tokens, the Parser *)
(* the statements, and the Runtime runs them with a Working-Storage that   *)
(* declares an item of the name the literal spells, or none.               *)
(***************************************************************************)
LiteralTexts == {nT, <<"H", "I">>, nR}
Quotes == {"'", Quote}
Statement(words) == Blanks(11) \o words
ThreeLines(header, statement, more) ==
    header \o <<LF>> \o Statement(statement) \o <<LF>> \o Statement(more)
\* PROCEDURE DIVISION.  DISPLAY 'text'.  STOP RUN.
LiteralDisplay(quote, text) ==
    ThreeLines(procedureDivision, <<"D", "I", "S", "P", "L", "A", "Y", " ">> \o <<quote>>
                                    \o text \o <<quote, ".">>,
          <<"S", "T", "O", "P", " ", "R", "U", "N", ".">>)
\* PROCEDURE DIVISION.  MOVE 'text' TO R.  DISPLAY R.
LiteralMove(quote, text) ==
    ThreeLines(procedureDivision, <<"M", "O", "V", "E", " ">> \o <<quote>> \o text
                                    \o <<quote>> \o <<" ", "T", "O", " ", "R", ".">>,
          <<"D", "I", "S", "P", "L", "A", "Y", " ", "R", ".">>)
\* PROCEDURE DIVISION.  DISPLAY T.  STOP RUN.
NamedDisplay == ThreeLines(procedureDivision, <<"D", "I", "S", "P", "L", "A", "Y", " ", "T",
                                                ".">>, <<"S", "T", "O", "P", " ", "R", "U",
                                                "N", ".">>)
LiteralSources ==
    {LiteralDisplay(quote, text) : quote \in Quotes, text \in LiteralTexts}
      \cup {LiteralMove(quote, text) : quote \in Quotes, text \in LiteralTexts}
      \cup {NamedDisplay}
\* R PIC X(3) VALUE "---", alone, with T PIC X(3) VALUE "abc", or with
\* T PIC 9(1) VALUE 7
LiteralData ==
    {<<Decl(nR, "X", 3, Q(<<"-", "-", "-">>))>>,
     <<Decl(nR, "X", 3, Q(<<"-", "-", "-">>)), Decl(nT, "X", 3, Q(<<"a", "b", "c">>))>>,
     <<Decl(nR, "X", 3, Q(<<"-", "-", "-">>)), Decl(nT, "9", 1, Num(7))>>}
\* new Parser(tokens).parse() on what tokenize returned
parseTokens ==
    /\ lexer.phase = "returned"
    /\ parse(lexer.tokens)
\* runtime.run(ast) on what parse returned, the Data Division being data
runParsed(data) ==
    /\ parser.phase = "returned"
    /\ run(Program(<<"L">>, data, <<>>, parser.usingParameters, parser.statements))

NextLiteral ==
    \/ \E source \in LiteralSources : tokenize(source)
    \/ parseTokens
    \/ procedureTurn
    \/ parseReturn
    \/ \E data \in LiteralData : runParsed(data)
    \/ executeMove
    \/ executeDisplay
    \/ executeStopRun
    \/ programReturn
    \/ statementsDone

SpecLiteral == Init /\ [][NextLiteral]_vars

(***************************************************************************)
(* Three programs deep: OUTER calls MIDDLE, MIDDLE calls or links to       *)
(* INNER.  INNER and MIDDLE end their part with STOP RUN, GOBACK, EXEC     *)
(* CICS RETURN, EXIT PROGRAM, a STOP RUN in an IF, two GOBACKs, nothing,   *)
(* or a DISPLAY of an item nobody declared, which is a runtime error; a    *)
(* DISPLAY of the program's name follows.                                  *)
(***************************************************************************)
nOUTER == <<"O", "U", "T", "E", "R">>
nMIDDLE == <<"M", "I", "D", "D", "L", "E">>
nINNER == <<"I", "N", "N", "E", "R">>
Enders ==
    {<<StopRun>>, <<Goback>>, <<ExecCics("RETURN", EmptyMap)>>,
     <<ExecCics("RETURN", [TRANSID |-> Q(nT).s])>>, <<ExitProgram>>,
     <<IfStmt(Always, <<StopRun>>)>>, <<Goback, Goback>>, <<>>,
     <<DisplayStmt(<<Str(nU)>>)>>}
Nested(id, statements) ==
    Program(id, <<>>, <<>>, <<>>, statements \o <<DisplayStmt(<<Q(id)>>)>>)
InnerPrograms == {Nested(nINNER, ender) : ender \in Enders}
CallsOfInner == {CallStmt(Q(nINNER), <<>>), ExecCics("LINK", [PROGRAM |-> Q(nINNER).s])}
MiddlePrograms ==
    {Nested(nMIDDLE, <<call>> \o ender) : call \in CallsOfInner, ender \in Enders}
OuterProgram == Nested(nOUTER, <<CallStmt(Q(nMIDDLE), <<>>)>>)

NextNested ==
    \/ \E p \in InnerPrograms \cup MiddlePrograms : hostRegisterProgram(p)
    \/ run(OuterProgram)
    \/ executeDisplay
    \/ handleIf
    \/ handleCall
    \/ handleCics
    \/ callReturn
    \/ programReturn
    \/ executeExitProgram
    \/ executeGoback
    \/ executeStopRun
    \/ statementsDone

SpecNested == Init /\ [][NextNested]_vars

(***************************************************************************)
(* From the source text to the semantic diagnostics: two statements, each  *)
(* on a line of its own after the header, with or without an empty line    *)
(* between them, are tokenized, parsed and validated against a Data        *)
(* Division with N numeric and A alphanumeric.                             *)
(***************************************************************************)
StatementTexts ==
    {<<"M", "O", "V", "E", " ", "1", " ", "T", "O", " ", "A", ".">>, <<"M", "O", "V", "E",
       " ", "A", " ", "T", "O", " ", "N", ".">>, <<"M", "O", "V", "E", " ", "'", "X", "'",
       " ", "T", "O", " ", "N", ".">>, <<"M", "O", "V", "E", " ", "1", " ", "T", "O", " ",
       "U", ".">>,
     <<"A", "C", "C", "E", "P", "T", " ", "N", ".">>, <<"D", "I", "S", "P", "L", "A", "Y",
       " ", "A", ".">>,
     <<"I", "F", " ", "N", " ", "=", " ", "1">> \o <<LF>> \o Statement(<<"A", "C", "C", "E",
       "P", "T", " ", "N">>) \o <<LF>> \o Statement(<<"E", "N", "D", "-", "I", "F", ".">>)}
Gaps == {<<LF>>, <<LF, LF>>}
TwoStatements(first, gap, second) ==
    procedureDivision \o <<LF>> \o Statement(first) \o gap \o Statement(second)
NumberedSources ==
    {TwoStatements(first, gap, second) :
        first \in StatementTexts, gap \in Gaps, second \in StatementTexts}
NumberedData ==
    {<<Decl(nN, "9", 1, Undefined), Decl(nA, "X", 2, Undefined)>>,
     <<Decl(nN, "9", 1, Undefined), Decl(nA, "X", 2, Undefined),
       Decl(nU, "X", 2, Undefined)>>}
\* SemanticValidator.validate(ast) on what parse returned, the Data Division
\* being data
validateParsed(data) ==
    /\ parser.phase = "returned"
    /\ semantic.ast = NoProgram
    /\ validate(Program(<<"V">>, data, <<>>, parser.usingParameters, parser.statements))

NextNumbered ==
    \/ \E source \in NumberedSources : tokenize(source)
    \/ parseTokens
    \/ procedureTurn
    \/ parseReturn
    \/ \E data \in NumberedData : validateParsed(data)

SpecNumbered == Init /\ [][NextNumbered]_vars

(***************************************************************************)
(* Properties of the runs                                                  *)
(***************************************************************************)
Returned(p) == phase = "returned" /\ ast = p
Lines(n, text) == [k \in 1..n |-> text]

\* C1: a PERFORM loop, UNTIL or TIMES, that would run more than
\* MAX_LOOP_ITERATIONS times ends the run with the infinite loop error
\* recorded in errors, the output written before the loop kept and nothing
\* after the loop executed
C1_LoopCeilingIsFatal ==
    \A p \in CeilingPrograms :
        Returned(p) => /\ errors = <<AbendText \o "IGZ0099S INFINITE LOOP.">>
                       /\ output = <<txtA>>

\* C2: in every reachable state the call stack holds at most MAX_STACK_DEPTH
\* frames (a deeper CALL ends the run with the stack overflow error instead
\* of pushing)
C2_CallStackBounded == Len(callStack) <= MAX_STACK_DEPTH

\* C3: PERFORM n TIMES executes its body exactly max(n, 0) times, whether n
\* is a literal (0 included) or the value of a variable: the run of the
\* program whose body is DISPLAY "A" ends with max(n, 0) lines
C3_TimesExecutesBodyNTimes ==
    /\ \A n \in -1..MaxTimes :
          Returned(TimesLiteralProgram(n))
            => output = Lines(IF n > 0 THEN n ELSE 0, txtA)
    /\ \A v \in {0, 2}, d \in {0, 3} :
          Returned(TimesVariableProgram(v, d))
            => output = Lines(IF v - d > 0 THEN v - d ELSE 0, txtA)

\* C4: PERFORM UNTIL tests its condition before each execution of the body:
\* with the counter started at v, ADD 1 in the body and the condition
\* counter > 5, the body runs 6 - v times and the counter ends at 6 when
\* v <= 5 (5 times from 1), and never runs, the counter untouched, when v > 5
C4_UntilIsPreTest ==
    \A v \in 1..MaxStart :
        Returned(UntilProgram(v))
          => /\ errors = <<>>
             /\ output = Lines(IF v > 5 THEN 0 ELSE 6 - v, txtA)
                            \o <<NatToDigits(IF v > 5 THEN v ELSE 6)>>
\* C4, its case: the run from 1 has ended with five lines of the body
C4_Witness ==
    /\ Returned(UntilProgram(1))
    /\ output = <<txtA, txtA, txtA, txtA, txtA, <<"6">>>>

\* C5: a CALL whose number of arguments differs from the number of USING
\* parameters of the program it calls (no argument to a program declaring
\* parameters included) ends the run with the parameter mismatch error
C5_ArgumentCountMismatchIsFatal ==
    \A c \in Library, u \in {<<>>, <<nA>>, <<nA, nB>>} :
        (/\ Returned(CallerProgram(c.id, u))
         /\ MapHas(programRepository, toUpperCase(c.id))
         /\ Len(u) # Len(c.procedureDivision.usingParameters))
          => errors = <<AbendText \o "IGZ0003S PARAMETER MISMATCH.">>

\* C6: after any sequence of MOVE, ADD, SUBTRACT, MULTIPLY, DIVIDE and
\* COMPUTE every numeric cell of length L holds a whole number of at most L
\* digits
C6_NumericCellsFitTheirLength ==
    \A id \in 1..Len(heap) :
        heap[id].picType = "9"
          => /\ heap[id].rawValue.t = "num"
             /\ heap[id].rawValue.d = 1
             /\ Abs(heap[id].rawValue.n) < Pow(10, heap[id].length)

\* the text s cut to length L when longer, padded with spaces on the right
\* when shorter
Fit(s, L) == [k \in 1..L |-> IF k <= Len(s) THEN s[k] ELSE " "]
\* the statement about to execute is a MOVE without reference modification
\* whose source resolves and whose target is an alphanumeric cell
MoveToAlphanumeric ==
    /\ AtStatement({"MOVE"})
    /\ Stmt.targetSlice = NoSlice
    /\ resolveValue(callStack, heap, Stmt.source).err = NoErr
    /\ getVariable(callStack, Stmt.target) # 0
    /\ heap[getVariable(callStack, Stmt.target)].picType = "X"
\* C7: a MOVE without reference modification of the text s into an
\* alphanumeric cell of length L leaves in the cell the first L characters
\* of s when s is longer and s padded on the right with spaces when shorter
C7_MoveFitsAlphanumeric ==
    [][MoveToAlphanumeric
         => LET id == getVariable(callStack, Stmt.target)
                s == String(resolveValue(callStack, heap, Stmt.source).v)
            IN  /\ heap'[id].rawValue = Str(Fit(s, heap[id].length))
                /\ \A j \in 1..Len(heap) : j # id => heap'[j] = heap[j]
                /\ errors' = errors]_vars
\* C7, its cases: MOVE "HELLO" TO A (PIC X(2)) has left "HE", and
\* MOVE "X" TO B (PIC X(3)) has left "X" and two spaces
C7_Witness ==
    /\ phase = "running"
    /\ Len(ctl) = 2
    /\ Top.k = "stmts"
    /\ Top.i = 3
    /\ Top.stmts = <<MoveStmt(Q(<<"H", "E", "L", "L", "O">>), nA),
                     MoveStmt(Q(<<"X">>), nB)>>
    /\ heap[3].rawValue = Str(<<"H", "E">>)
    /\ heap[4].rawValue = Str(<<"X", " ", " ">>)

\* the four characters of line from the 1-based column on
wordAt(line, column) ==
    IF column >= 1 /\ column + 3 <= Len(line) THEN SubSeq(line, column, column + 3)
    ELSE <<>>
\* the 1-based line of the text, empty when there is no such line
lineOf(text, line) ==
    IF line \in 1..Len(split(text)) THEN split(text)[line] ELSE <<>>

\* C8: when Preprocessor.process returns a missingCopy result, its line and
\* column are the 1-based line and column of the letter C of the COPY
\* keyword in the returned expandedSource, and that line still holds the
\* COPY statement, unexpanded.
C8_MissingCopyPosition ==
    (prep.phase = "returned" /\ prep.result.missingCopy # <<>>) =>
        /\ toUpperCase(wordAt(lineOf(prep.result.expandedSource,
                                     prep.result.missingCopy[1].line),
                              prep.result.missingCopy[1].column)) = COPY
        /\ includes(toUpperCase(lineOf(prep.result.expandedSource,
                                       prep.result.missingCopy[1].line)),
                    COPY \o <<" ">> \o prep.result.missingCopy[1].name)

\* C9: in the compile-and-run pipeline no program for which semantic
\* validation yields an ERROR diagnostic is ever passed to Runtime.run.
C9_SemanticErrorBlocksRun ==
    phase # "idle" => ~someError(validated(ast).errors)

\* the number of declarations of name in the list
declarations(variables, name) ==
    Cardinality({i \in DOMAIN variables : variables[i].name = name})
\* the names declared once in Working-Storage and once in Linkage
declaredAcross(program) ==
    {name \in {nN, nA} :
        /\ declarations(program.dataDivision.workingStorage, name) = 1
        /\ declarations(program.dataDivision.linkageSection, name) = 1}
\* the diagnostics that report name as defined already
duplications(errs, name) ==
    {i \in DOMAIN errs :
        /\ includes(errs[i].message, <<"A", "L", "R", "E", "A", "D", "Y", " ", "D", "E",
                                       "F", "I", "N", "E", "D">>)
        /\ includes(errs[i].message, quoted(name))}

\* C10: after validate, a name declared once in Working-Storage and once
\* in Linkage has exactly one diagnostic for the duplication; it is of
\* severity ERROR and its message names the symbol.
C10_DuplicateAcrossSectionsIsOneError ==
    \A name \in declaredAcross(semantic.ast) :
        /\ Cardinality(duplications(semantic.errors, name)) = 1
        /\ \A i \in duplications(semantic.errors, name) :
               semantic.errors[i].severity = "ERROR"
\* a program with such a name and statements of its own has been validated
C10_Witness ==
    /\ declaredAcross(semantic.ast) # {}
    /\ semantic.ast.procedureDivision.statements # <<>>
    /\ Len(semantic.errors) > 1

Stopped == phase = "running" /\ ~isRunning
\* C12: once STOP RUN has executed, at any call depth and inside any
\* nesting of IF and PERFORM bodies, or GOBACK has executed in the
\* outermost frame, no statement executes any more (every step leaves one
\* activation of the interpreter, and no output line, error or cell
\* changes), and the run returns
C12_StopRunEndsTheRun ==
    /\ [][Stopped => /\ ctl' = Pop(ctl)
                     /\ output' = output
                     /\ errors' = errors
                     /\ ~isRunning'
                     /\ Len(heap') <= Len(heap)
                     /\ \A id \in 1..Len(heap') : heap'[id] = heap[id]]_vars
    /\ Stopped ~> (phase = "returned")
C12_Witness ==
    /\ Returned(EarlyProgram("call", StopRun))
    /\ MapHas(programRepository, nK)
    /\ programRepository[nK] = Callee(StopRun)
    /\ ~isRunning
    /\ output = <<txtA>>
    /\ errors = <<>>

\* what the caller displays of variable v after CALL "PAIR" USING x y
\* returned: 8 if v was the second argument, else 7 if it was the first,
\* else what it held before
afterPair(v, x, y) ==
    IF v = y THEN IF v = nN THEN <<"8">> ELSE <<"8", " ">>
    ELSE IF v = x THEN IF v = nN THEN <<"7">> ELSE <<"7", " ">>
    ELSE IF v = nA THEN <<"H", "I">> ELSE IF v = nB THEN <<" ", " ">> ELSE <<"5">>
\* C13: CALL ... USING passes its arguments by reference and by position:
\* while the called program runs, its i-th USING parameter is bound to the
\* very cell of the caller's i-th argument, and after the CALL returned
\* each argument holds what the called program left in the parameter
C13_ArgumentsByReference ==
    \A x \in PairArguments : \A y \in PairArguments :
        /\ (phase = "running" /\ ast = PairCaller(x, y) /\ Len(callStack) = 2) =>
              /\ callStack[2].linkage[nP] = callStack[1].memory[x]
              /\ callStack[2].linkage[nR] = callStack[1].memory[y]
        /\ (Returned(PairCaller(x, y)) /\ errors = <<>>) =>
              /\ Len(output) = 2
              /\ output[2] = afterPair(nA, x, y) \o afterPair(nB, x, y)
                               \o afterPair(nN, x, y)
C13_Witness ==
    /\ Returned(PairCaller(nN, nA))
    /\ output = <<<<"7", "8", " ">>, <<"8", " ", " ", " ", "7">>>>

\* run has pushed the frame of the program and is at its first statement
AtStart == phase = "running" /\ Len(ctl) = 2 /\ Top.k = "stmts" /\ Top.i = 1
\* what a declaration asks its cell to start from: the VALUE clause, or
\* else 0 for a numeric item and spaces for an alphanumeric one
declaredValue(v) ==
    IF v.defaultValue # Undefined
    THEN IF v.defaultValue.t = "str"
         THEN Str(SubSeq(v.defaultValue.s, 2, Len(v.defaultValue.s) - 1))
         ELSE v.defaultValue
    ELSE IF v.picType = "9" THEN Num(0) ELSE Str(Lines(v.picLength, " "))
\* C14: every run starts with each Working-Storage cell at its VALUE
\* clause, or at 0 (numeric) or spaces (alphanumeric) without one, whatever
\* the cells held when an earlier run on the same Runtime ended
C14_RunStartsFromDeclaredValues ==
    AtStart =>
        \A k \in 1..Len(ast.dataDivision.workingStorage) :
            LET v == ast.dataDivision.workingStorage[k]
            IN  /\ MapHas(callStack[1].memory, v.name)
                /\ heap[callStack[1].memory[v.name]].rawValue = declaredValue(v)
C14_Witness ==
    /\ AtStart
    /\ ast = StorageProgram
    /\ MapHas(programRepository, nW)
    /\ nextFid > 2
    /\ heap[callStack[1].memory[nN]].rawValue = Num(5)
    /\ heap[callStack[1].memory[nB]].rawValue = Str(<<" ", " ", " ">>)

\* C15: the result of a run depends on the program, the registry and the
\* inputs of that run only, not on the runs made before on the same
\* Runtime: the READ of a file that does not exist, with no HANDLE
\* CONDITION in the program, ends every run of the program as it ends the
\* first run on a new Runtime
C15_ResultIndependentOfEarlierRuns ==
    Returned(ReadProgram) =>
        /\ output = <<txtA>>
        /\ errors = <<AbendText \o "CICS CONDITION 'NOTFND' NOT HANDLED.">>
\* the first run on a Runtime gives that result
C15_FirstRun ==
    /\ Returned(ReadProgram)
    /\ nextFid = 2
    /\ output = <<txtA>>
    /\ errors = <<AbendText \o "CICS CONDITION 'NOTFND' NOT HANDLED.">>

\* the adapter is suspended: the promise of onStatement is pending
Suspended == phase = "running" /\ debug.resumeSignal
\* C16: NEXT issued while the adapter is suspended before a statement at
\* call-stack depth d makes it suspend next at depth d or less, never
\* inside the program a suspended CALL calls: with the adapter paused
\* before the run and nothing but NEXT issued from then on, it is never
\* suspended inside a called program
C16_NextStepsOverCalls ==
    (Suspended /\ debug.mode = "NEXT") => Len(callStack) = 1
\* before the first NEXT the adapter is suspended at the CALL, at depth 1
C16_SuspendedAtCall ==
    /\ Suspended
    /\ ast = DebugCallFirst
    /\ Len(callStack) = 1
    /\ Stmt.type = "CALL"
    /\ MapHas(programRepository, nT)

\* C17: in STEP mode the adapter suspends before the very next statement,
\* and a statement on a breakpoint line, or a pause requested from
\* outside, suspends it before the next statement in every mode: at such
\* a statement the call of onStatement leaves the promise pending and the
\* statement not executed
C17_StepBreakpointPauseSuspend ==
    [][(BeforeStatement /\ (\/ debug.mode = "STEP"
                            \/ debug.status = "PAUSED"
                            \/ stmtLine(Stmt) \in debug.breakpoints))
           => /\ debug'.resumeSignal
              /\ debug'.status = "PAUSED"
              /\ UNCHANGED <<ctl, callStack, heap, output>>]_vars
C17_Witness ==
    /\ Suspended
    /\ debug.mode = "NEXT"
    /\ debug.targetStackDepth = 1
    /\ Len(callStack) = 2
    /\ stmtLine(Stmt) \in debug.breakpoints

\* executeStatements is at a statement, the call of the debugger included
InStatement ==
    /\ phase = "running"
    /\ ctl # <<>>
    /\ Top.k = "stmts"
    /\ Top.i <= Len(Top.stmts)
\* C18: with a debugger attached the interpreter calls it before every
\* statement (of the program, of an IF or PERFORM body, of a called
\* program) and executes the statement only after the callback resolved;
\* while the adapter is suspended no statement executes and no cell,
\* output line or frame changes, and the command that resumes it lets the
\* run go on with the very statement it was suspended before
C18_StatementsAwaitTheDebugger ==
    [][/\ (debug.attached /\ InStatement /\ ~Top.seen) =>
              /\ UNCHANGED <<callStack, heap, output, errors, isRunning>>
              /\ ctl' = ctl \/ (ctl' = Resolved(ctl) /\ ~debug'.resumeSignal)
                           \/ (ctl' = Pop(ctl) /\ (~isRunning \/ callStack = <<>>))
       /\ Suspended =>
              /\ UNCHANGED <<callStack, heap, output, errors, isRunning, phase>>
              /\ ctl' = ctl \/ (ctl' = Resolved(ctl) /\ ~debug'.resumeSignal)
      ]_vars
C18_Witness ==
    /\ phase = "running"
    /\ debug.attached
    /\ ~debug.resumeSignal
    /\ debug.status = "RUNNING"
    /\ InStatement
    /\ Top.seen
    /\ Len(callStack) = 2
    /\ stmtLine(Stmt) = 2

\* the first output line is the echo of the text the host supplied to the
\* first ACCEPT, and accepted is that text
Echoed ==
    /\ Len(output) = 1
    /\ Len(output[1]) >= 2
    /\ SubSeq(output[1], 1, 2) = <<">", " ">>
accepted == SubSeq(output[1], 3, Len(output[1]))
\* C19: ACCEPT target suspends the run until the host supplies a text s,
\* then stores s itself into target under the PIC rules of target,
\* whatever s is, and goes on with the statement after the ACCEPT: once
\* the text for ACCEPT A (A PIC X(2)) was supplied, no error is recorded
\* for it and A holds the text, cut or padded to two characters
C19_AcceptStoresTheInput ==
    (ast = AcceptProgram /\ Echoed) =>
        /\ errors = <<>>
        /\ phase = "running"
        /\ heap[callStack[1].memory[nA]].rawValue = Str(Fit(accepted, 2))
        /\ Top.i = 2
\* the run is suspended at ACCEPT A, awaiting the text
C19_AwaitingInput ==
    /\ phase = "running"
    /\ ast = AcceptProgram
    /\ wait.on = "input"
    /\ output = <<>>
    /\ Top.i = 1

\* the text of the screen buffer at a row, a column and a length
screenText(row, col, length) ==
    [k \in 1..length |->
        LET index == (row - 1) * ScreenColumns + (col - 1) + (k - 1)
        IN  IF index \in DOMAIN cics.screenBuffer THEN cics.screenBuffer[index]
            ELSE " "]
\* the value of a variable of the program, as a text
valueOf(name) == String(heap[callStack[1].memory[name]].rawValue)
\* the number a typed text stands for, as a text: the text without the
\* spaces around it, 0 for a blank one
typedNumber(text) == IF trim(text) = <<>> THEN <<"0">> ELSE trim(text)
\* the run is past a RECEIVE MAP it has just completed
Received ==
    /\ phase = "running"
    /\ ast = ScreenProgram
    /\ Len(ctl) = 2
    /\ Top.i \in {3, 5}
\* C20: EXEC CICS RECEIVE MAP reads no screen cell before the host has
\* signalled that the screen is ready (while it waits for the first screen
\* the variables hold what they were declared with), and after the signal
\* every variable named by a field of the map holds the text of the buffer
\* at the row, column and length of the field, while a variable named by
\* no field is unchanged
C20_ReceiveMapReadsTheScreen ==
    /\ (phase = "running" /\ ast = ScreenProgram /\ wait.on = "screen"
          /\ Top.i = 2) =>
            /\ valueOf(nNAME) = <<"A", "L", " ">>
            /\ valueOf(nAGE) = <<"5">>
    /\ Received =>
            /\ valueOf(nNAME) = screenText(1, 1, 3)
            /\ valueOf(nAGE) = typedNumber(screenText(1, 5, 2))
            /\ valueOf(nOTHER) = <<"H", "I">>
\* the run waits for the screen at the first RECEIVE MAP
C20_AwaitingScreen ==
    /\ phase = "running"
    /\ ast = ScreenProgram
    /\ wait.on = "screen"
    /\ Top.i = 2
    /\ cics.screenBuffer = writeToScreen(writeToScreen(clearScreen, 1, 1, <<"A", "L",
                                                                            " ">>),
                                         1, 5, <<"5", " ">>)

\* a line of the text being expanded still holds a COPY statement
copyLeft == \E i \in 1..Len(prep.lines) : copyStatement(prep.lines[i]).m.matched
\* C21: Preprocessor.process returns whatever the source and the library,
\* copybooks that copy themselves or each other included: it makes at most
\* 100 passes, a call that has made 100 passes returns the nested copy depth
\* error, and a call that returns neither an error nor a missing copybook
\* has expanded every COPY statement.
C21_ProcessTerminates ==
    /\ [](prep.loops <= 100)
    /\ []((prep.phase = "returned" /\ prep.loops >= 100) =>
              /\ prep.result.error = nestedCopyDepth
              /\ prep.result.missingCopy = <<>>)
    /\ []((prep.phase = "returned" /\ prep.result.error = NoError
             /\ prep.result.missingCopy = <<>>) => ~copyLeft)
    /\ ((prep.phase = "scanning") ~> (prep.phase = "returned"))
\* the copybook that copies itself was expanded in 100 passes and the call
\* returned
C21_Witness ==
    /\ prep.phase = "returned"
    /\ prep.loops = 100
    /\ Len(prep.lines) = 201
    /\ prep.lines[1] = beginCopy(<<"S", "E", "L", "F">>)
    /\ prep.lines[101] = <<" ", " ", " ", " ", " ", " ", " ", "C", "O", "P", "Y", " ", "S",
                           "E", "L", "F", ".">>
    /\ prep.result.error = nestedCopyDepth

\* the run of the instance number n has returned the result of program p
\* run alone on a new Runtime
resultAlone(n, p, out, errs) ==
    (fieldsOf(n).phase = "returned" /\ fieldsOf(n).ast = p) =>
        /\ fieldsOf(n).output = out
        /\ fieldsOf(n).errors = errs
\* no step of one instance changes a field of the other or a file of the
\* store, a suspended instance finds its fields as it left them, and every
\* run returns what it returns alone on a new Runtime
NoInterference ==
    /\ [][/\ storage'.files = storage.files
          /\ (peer'.instance = peer.instance) => (peer' = peer)
          /\ (peer'.instance # peer.instance) =>
                 /\ peer'.fields = thisRuntime
                 /\ thisRuntime' = peer.fields]_vars
    /\ [](\A n \in {1, 2} :
            /\ resultAlone(n, ReadProgram, <<txtA>>,
                           <<AbendText \o "CICS CONDITION 'NOTFND' NOT HANDLED.">>)
            /\ resultAlone(n, HandledProgram, <<txtB>>,
                           <<"CICS HANDLE CONDITION TRIGGERED: NOTFND">>)
            /\ resultAlone(n, FoundProgram, <<<<"0", "0", "0", "0", "1", "A", "L">>>>,
                           <<>>))
\* C22: two Runtime instances whose runs interleave share no state that can
\* change: the call stack, output, CicsContext (screen, handlers) and
\* registry of one are never changed by the statements of the other, and
\* the file store the statements of one instance read is never read or
\* changed by the statements of the other.
C22_InstancesShareNoState ==
    /\ NoInterference
    /\ [](Cardinality(storage.readBy) <= 1)
\* the first instance is suspended after its HANDLE CONDITION while the
\* second, which has no handler, is before its READ
C22_Interleaved ==
    /\ thisInstance = 2
    /\ phase = "running"
    /\ ast = ReadProgram
    /\ Len(ctl) = 2
    /\ Top.i = 2
    /\ cics.handlers = EmptyMap
    /\ peer.fields.phase = "running"
    /\ peer.fields.ast = HandledProgram
    /\ MapHas(peer.fields.cics.handlers, "NOTFND")

\* the i-th line of the source validated
sourceLine(i) == split(validator.source)[i]
\* the indicator of a line: the character in column 7, a blank if the line
\* ends before it
indicatorOf(line) == IF Len(line) >= 7 THEN line[7] ELSE " "
\* the columns 8-72 of a line
contentOf(line) == SubSeq(line, 8, IF Len(line) < 72 THEN Len(line) ELSE 72)
\* the first word of the columns 8-72, in upper case, and its column
wordOf(line) == firstWord(contentOf(line))
columnOf(line) == firstCharIdx(contentOf(line)) + 8
inAreaA(line) == columnOf(line) >= 8 /\ columnOf(line) <= 11
inAreaB(line) == columnOf(line) >= 12 /\ columnOf(line) <= 72
isLevel(line, levels) == AllDigits(wordOf(line)) /\ DigitsToNat(wordOf(line)) \in levels
\* the validator has reported an ERROR for the i-th line
errorAt(i) ==
    \E k \in 1..Len(validator.errors) :
        validator.errors[k].line = i /\ validator.errors[k].severity = "ERROR"
\* the layout faults of a line that is no comment
misplaced(line) ==
    \/ indicatorOf(line) \notin {" ", "*", "/", "-", "D"}
    \/ /\ wordOf(line) \in AREA_A_KEYWORDS \/ isLevel(line, {1, 77})
       /\ inAreaB(line)
    \/ /\ wordOf(line) \in AREA_B_KEYWORDS \/ isLevel(line, {66, 88})
       /\ inAreaA(line)
\* C23: the column validator reports an ERROR for a line that is no comment
\* exactly when its indicator is outside {space, *, /, -, D}, or its first
\* word is a header or a level 01/77 number starting in the columns 12-72,
\* or its first word is a statement verb or a level 66/88 number starting
\* in the columns 8-11; text in the columns 73-80 gives an INFO diagnostic
\* and never an ERROR.
C23_ColumnErrors ==
    validator.called =>
        /\ \A i \in 1..Len(split(validator.source)) :
               indicatorOf(sourceLine(i)) \notin {"*", "/"} =>
                   (errorAt(i) <=> misplaced(sourceLine(i)))
        /\ \A i \in 1..Len(split(validator.source)) :
               (Len(sourceLine(i)) > 72
                  /\ \E k \in 73..Len(sourceLine(i)) : sourceLine(i)[k] # " ") =>
                   \E k \in 1..Len(validator.errors) :
                       /\ validator.errors[k].line = i
                       /\ validator.errors[k].column = 73
                       /\ validator.errors[k].severity = "INFO"
        /\ \A k \in 1..Len(validator.errors) :
               validator.errors[k].severity = "ERROR" => validator.errors[k].column <= 72
\* a debugging line, lower-case d in column 7, was validated
C23_LowerCaseDebugLine ==
    /\ validator.called
    /\ validator.source = Blanks(6) \o <<"d">> \o Blanks(4) \o <<"d", "i", "s", "p", "l",
                                         "a", "y", " ", "X", ".">>
    /\ validator.errors = <<>>

\* the cell of the heap holds an alphanumeric value of exactly its length
exactLength(cell) ==
    cell.picType = "X" => cell.rawValue.t = "str" /\ Len(cell.rawValue.s) = cell.length
executing ==
    /\ phase = "running"
    /\ ctl # <<>>
    /\ Top.k = "stmts"
    /\ Top.i <= Len(Top.stmts)
    /\ isRunning
    /\ callStack # <<>>
\* the frame pushed for the program whose statements are executing: that of
\* the innermost executeProgram or handleCall still on the way
ownerFid ==
    LET owners == {j \in 1..Len(ctl) : ctl[j].k \in {"program", "call"}}
    IN  ctl[CHOOSE j \in owners : \A m \in owners : m <= j].fid
\* C25: once EXIT PROGRAM or GOBACK has executed in a called program none of
\* its remaining statements executes: every statement about to execute
\* belongs to the program of the current frame
C25_ExitLeavesTheCalledProgram ==
    executing => ownerFid = callStack[Len(callStack)].fid
\* C25, its case: LEAVEX has executed EXIT PROGRAM in its IF and the run is
\* at a statement with only the frame of the caller left
C25_ExitExecuted ==
    /\ executing
    /\ Len(callStack) = 1
    /\ \E j \in 1..Len(ctl) : ctl[j].k = "call"
    /\ MapHas(programRepository, <<"L", "E", "A", "V", "E", "X">>)
    /\ ast = ExitCaller(<<"L", "E", "A", "V", "E", "X">>)

\* the expression has a division whose divisor evaluates to zero
RECURSIVE dividesByZero(_, _, _)
dividesByZero(stack, h, expr) ==
    CASE expr.type \in {"Literal", "Variable"} -> FALSE
      [] expr.type = "Unary" -> dividesByZero(stack, h, expr.right)
      [] OTHER ->
           \/ dividesByZero(stack, h, expr.left)
           \/ dividesByZero(stack, h, expr.right)
           \/ /\ expr.operator = "SLASH"
              /\ evaluateExpression(stack, h, expr.right) = Ok(Num(0))
\* C26: a COMPUTE whose expression divides by zero ends the run with one
\* more entry in the error list and leaves every cell as it was
C26_ComputeDivisionByZeroIsFatal ==
    [][AtStatement({"COMPUTE"}) /\ dividesByZero(callStack, heap, Stmt.expression)
         => /\ phase' = "returned"
            /\ Len(errors') = Len(errors) + 1
            /\ heap' = heap]_vars
\* C26, its case: COMPUTE M = N / Z with N and Z zero has ended the run with
\* the error of the value that is not a number
C26_ZeroByZero ==
    /\ phase = "returned"
    /\ ast = QuotientProgram(0, Binary(Var(nN), "SLASH", Var(nZ)))
    /\ errors = <<AbendText \o "IGZ0020S INVALID NUMERIC DATA">>
    /\ output = <<>>

\* parse has been called and has neither returned nor thrown
parsing == parser.phase = "statements"
\* C27: parse, once called on a token list that ends with EOF, comes to an
\* end: it returns the Program or throws the syntax error, which carries the
\* line and the column of a token
C27_ParseTerminates ==
    /\ parsing ~> (parser.phase \in {"returned", "threw"})
    /\ [](parser.phase = "threw"
            => \E k \in 1..Len(parser.tokens) :
                   /\ parser.error.line = parser.tokens[k].line
                   /\ parser.error.column = parser.tokens[k].column)
\* C27, its case: a paragraph name and its period, then GOBACK, the parser
\* past the name and at the period
C27_AtThePeriod ==
    /\ parsing
    /\ parser.tokens = HeaderTokens \o LinesFrom(<<<<<<"IDENTIFIER", <<"P", "A", "R",
                                                       "A">>>>>>,
                                                   <<<<"DOT", <<".">>>>>>,
                                                   <<<<"GOBACK", <<"G", "O", "B", "A", "C",
                                                       "K">>>>>>>>, 1)
    /\ peek(parser.tokens, parser.current).type = "DOT"

\* the statements of the bodies of a statement
bodiesOf(stmt) ==
    IF stmt.type = "IF" THEN stmt.thenBody \o stmt.elseBody
    ELSE IF stmt.type = "PERFORM" THEN stmt.body
    ELSE <<>>
\* the statements of a list and, at any depth, of their bodies
RECURSIVE allNodes(_)
allNodes(stmts) ==
    UNION {{stmts[i]} \cup allNodes(bodiesOf(stmts[i])) : i \in 1..Len(stmts)}
\* the statements that are part of a body
nestedNodes(stmts) == UNION {allNodes(bodiesOf(stmts[i])) : i \in 1..Len(stmts)}
\* the tokens of the statements start after the period of the header
firstStatementToken == Len(HeaderTokens) + 1
\* the p-th token is the first period of the statements, an IF or a PERFORM
\* stands before it and no END-IF or END-PERFORM does
closingPeriod(tokens, p) ==
    /\ p \in firstStatementToken..Len(tokens)
    /\ tokens[p].type = "DOT"
    /\ \E j \in firstStatementToken..(p - 1) : tokens[j].type \in {"IF", "PERFORM"}
    /\ \A j \in firstStatementToken..(p - 1) :
           tokens[j].type \notin {"DOT", "END_IF", "END_PERFORM"}
\* C28: a period in an IF or PERFORM body that no END-IF or END-PERFORM
\* precedes closes every open IF and PERFORM: in the Program returned no
\* statement after the period is part of a body, and an IF before the
\* period has an ELSE branch only if its ELSE stands before the period
C28_PeriodClosesOpenBodies ==
    parser.phase = "returned"
      => \A p \in 1..Len(parser.tokens) :
             closingPeriod(parser.tokens, p)
               => /\ \A s \in nestedNodes(parser.statements) :
                         s.line < parser.tokens[p].line
                  /\ \A s \in allNodes(parser.statements) :
                         s.type = "IF" /\ s.line < parser.tokens[p].line /\ s.hasElse
                           => \E j \in 1..(p - 1) : parser.tokens[j].type = "ELSE"
\* C28, its case: the Program is returned for IF N = 1 / GOBACK / . and a
\* statement after the period
C28_PeriodInBody ==
    /\ parser.phase = "returned"
    /\ closingPeriod(parser.tokens, 9)
    /\ parser.tokens[4].type = "IF"
    /\ parser.tokens[8].type = "GOBACK"
    /\ parser.tokens[10].type \in {"GOBACK", "DISPLAY"}

\* the token the parser is at
nextToken == peek(parser.tokens, parser.current)
\* the loop of parseProcedureDivision, where no IF and no PERFORM is open, is
\* at an ELSE, an END-IF or an END-PERFORM
atStrayKeyword == parsing /\ nextToken.type \in {"ELSE", "END_IF", "END_PERFORM"}
\* C29: an ELSE or END-IF met while no IF is open, and an END-PERFORM met
\* while no PERFORM is open, makes the parser throw an error at that token
\* which names the keyword
C29_StrayKeywordIsAnError ==
    atStrayKeyword
      ~> /\ parser.phase = "threw"
         /\ parser.error.line = nextToken.line
         /\ parser.error.column = nextToken.column
         /\ parser.error.found = nextToken.value
\* C29, its case: the first statement of the Procedure Division is ELSE
C29_ElseComesFirst ==
    /\ atStrayKeyword
    /\ nextToken.type = "ELSE"
    /\ parser.current = Len(HeaderTokens)

\* the resolved operand is blank: the empty text or spaces only
isBlank(raw) == raw.t = "str" /\ trim(raw.s) = <<>>
\* the comparison on resolved operands: of numbers when both are numbers
\* and neither is blank, of texts otherwise
comparison(operator, rawLeft, rawRight) ==
    IF /\ ~isNaN(Number(rawLeft)) /\ ~isNaN(Number(rawRight))
       /\ ~isBlank(rawLeft) /\ ~isBlank(rawRight)
    THEN compareNumbers(operator, Number(rawLeft), Number(rawRight))
    ELSE compareStrings(operator, String(rawLeft), String(rawRight))
\* the IF about to execute has operands that resolve
resolvedIf ==
    /\ AtStatement({"IF"})
    /\ resolveValue(callStack, heap, Stmt.condition.left).err = NoErr
    /\ resolveValue(callStack, heap, Stmt.condition.right).err = NoErr
\* C30: IF compares its operands as numbers exactly when both are numbers
\* and neither is blank, as texts otherwise, and goes on with the THEN
\* branch when the comparison holds, with the ELSE branch, if there is one,
\* when it does not
C30_ConditionComparison ==
    [][resolvedIf
         => ctl' = IF comparison(Stmt.condition.operator,
                                 resolveValue(callStack, heap, Stmt.condition.left).v,
                                 resolveValue(callStack, heap, Stmt.condition.right).v)
                   THEN Append(Advance(ctl), StmtsFrame(Stmt.thenBody))
                   ELSE IF Stmt.hasElse
                        THEN Append(Advance(ctl), StmtsFrame(Stmt.elseBody))
                        ELSE Advance(ctl)]_vars
\* C30, its case: IF A = 0 ... ELSE ... with A, PIC X(2), holding two spaces
\* has gone on with a branch
C30_BlankCellAgainstNumber ==
    /\ phase = "running"
    /\ ast = CompareProgram(Undefined, Cond(Str(nA), "=", Num(0)), TRUE)
    /\ Len(ctl) = 3

\* the text the screen holds for some field of the map is one that
\* applyPicRules refuses for the variable of that field
receiveFails(stack, h, screen, fields) ==
    \E i \in 1..Len(fields) :
        /\ getVariable(stack, fields[i].name) # 0
        /\ LET id == getVariable(stack, fields[i].name)
           IN  applyPicRules(Str(readFromScreen(screen, fields[i].row, fields[i].col,
                                                fields[i].length)),
                             h[id].picType, h[id].length).err # NoErr
\* C31: no failure is discarded silently: when RECEIVE MAP goes on with a
\* screen whose text cannot be stored into the variable of a field, the
\* error list of the run gains a message
C31_NoFailureIsSilent ==
    [][(/\ phase = "running"
        /\ wait.on = "screen"
        /\ wait'.on = "none"
        /\ receiveFails(callStack, heap, cics'.screenBuffer,
               findMap(programRepository, callStack, resolveName(Stmt.params.MAP),
                       resolveName(Stmt.params.MAPSET)).fields))
         => Len(errors') > Len(errors)]_vars
\* C31, its case: the user typed AB into the field of the Numeric AGE, the
\* RECEIVE MAP is over, AGE holds what it held and no error is recorded
C31_LettersForAge ==
    /\ phase = "running"
    /\ ast = ScreenProgram
    /\ readFromScreen(cics.screenBuffer, 1, 5, 2) = <<"A", "B">>
    /\ AtStatement({"DISPLAY"})
    /\ heap[getVariable(callStack, nAGE)].rawValue = Num(5)
    /\ errors = <<>>

\* the run is about to execute a READ whose file is not on the disk, or
\* whose file has no record under the key the RIDFLD variable holds
readsAbsent ==
    /\ AtStatement({"EXEC_CICS"})
    /\ Stmt.command = "READ"
    /\ \/ resolveName(Stmt.params.FILE) \notin DOMAIN storage.files
       \/ trim(String(heap[getVariable(callStack, Stmt.params.RIDFLD)].rawValue))
              \notin DOMAIN storage.files[resolveName(Stmt.params.FILE)].records
inlinedFromPair(lines) ==
    {k \in 1..Len(lines) :
        \E i \in 1..(k - 1), j \in (k + 1)..Len(lines) :
            /\ lines[i] = beginCopy(nPAIR)
            /\ lines[j] = endCopy(nPAIR)
            /\ \A m \in (i + 1)..(j - 1) : lines[m] # endCopy(nPAIR)}
\* C33: COPY PAIR REPLACING ==AA== BY ==BB== leaves no occurrence of AA, in
\* whatever letter case, in the text inlined from PAIR
C33_ReplacingIgnoresCase ==
    prep.phase = "returned" =>
        \A k \in inlinedFromPair(split(prep.result.expandedSource)) :
            ~includes(toUpperCase(split(prep.result.expandedSource)[k]), <<"A", "A">>)
\* C33, its case: the source is the one COPY PAIR REPLACING ==AA== BY ==BB==
\* and the copybook, whose second line writes the name as aa-AA, is inlined
C33_PairInlined ==
    /\ prep.phase = "returned"
    /\ prep.result.error = NoError
    /\ prep.result.missingCopy = <<>>
    /\ Len(split(prep.result.expandedSource)) = 4
    /\ split(prep.result.expandedSource)[1] = beginCopy(nPAIR)
    /\ split(prep.result.expandedSource)[2] = <<" ", " ", " ", " ", " ", " ", " ", "0", "1",
                                                " ", "B", "B", " ", "P", "I", "C", " ", "X",
                                                ".">>
    /\ split(prep.result.expandedSource)[4] = endCopy(nPAIR)

\* C34: process reports the nested copy depth only when the ceiling is
\* exceeded: a call whose last pass found nothing to expand returns no such
\* error
C34_DepthErrorOnlyBeyondTheCeiling ==
    (prep.phase = "returned" /\ ~prep.hasChanges /\ prep.loops <= MAX_LOOPS)
        => prep.result.error # nestedCopyDepth
\* C34, its case: the source copies B1, the 99 books of the chain were
\* expanded in 99 passes and the 100th pass found no COPY
C34_HundredthPassFindsNothing ==
    /\ prep.phase = "returned"
    /\ prep.loops = MAX_LOOPS
    /\ ~prep.hasChanges
    /\ \A k \in 1..ChainDepth : includes(prep.result.expandedSource, beginCopy(ChainName(k)))
    /\ includes(prep.result.expandedSource, <<"0", "1", " ", "A", "A", " ", "P", "I", "C",
                                              " ", "X", ".">>)

\* the rational n/d, d > 0, without its fractional part
Truncated(v) ==
    Num(IF v.n >= 0 THEN v.n \div v.d ELSE -((-v.n) \div v.d))
\* C35: a COMPUTE whose expression has a finite value stores into its
\* Numeric target that value without its fractional part, rounded toward
\* zero, and then cut to the digits of the target
C35_NumericStoreTruncatesTowardZero ==
    [][(/\ AtStatement({"COMPUTE"})
        /\ evaluateExpression(callStack, heap, Stmt.expression).err = NoErr
        /\ evaluateExpression(callStack, heap, Stmt.expression).v.t = "num")
         => LET id == getVariable(callStack, Stmt.target)
            IN  heap'[id].rawValue =
                    picTruncate(Truncated(evaluateExpression(callStack, heap,
                                                             Stmt.expression).v),
                                heap[id].length).v]_vars
\* C35, its case: COMPUTE M = (0 - 7) / 2 has stored its result and the run
\* is at the DISPLAY
C35_MinusThreeAndAHalf ==
    /\ AtStatement({"DISPLAY"})
    /\ ast = FractionProgram(Fraction(7, 2, TRUE))
    /\ heap[getVariable(callStack, nM)].rawValue = Num(-4)
    /\ errors = <<>>

\* a text that reads as a number: Number of it is a number and it is not blank
numericLooking(s) == ~isNaN(Number(Str(s))) /\ trim(s) # <<>>
\* the one statement of the validated program and the type of its target
movedSource == semantic.ast.procedureDivision.statements[1].source
movedInto ==
    semantic.symbolTable[semantic.ast.procedureDivision.statements[1].target].type
\* C36: the MOVE of a literal into a declared item has an ERROR exactly when
\* the literal is a number and the item Alphanumeric, or the literal is a
\* text that does not read as a number and the item Numeric
C36_LiteralMoveDiagnostics ==
    semantic.ast \in LiteralMovePrograms =>
        (someError(semantic.errors)
           <=> \/ isNumber(movedSource) /\ movedInto = "X"
               \/ ~isNumber(movedSource) /\ ~numericLooking(movedSource.s)
                  /\ movedInto = "9")
\* C36, its case: MOVE "12" TO N, N being Numeric, has been validated
C36_DigitsInQuotes ==
    /\ semantic.ast = LiteralMoveProgram(2, 2, Str(<<"1", "2">>), nN)
    /\ Len(semantic.errors) = 1
    /\ semantic.errors[1].code = "IGYPS2104-E"
    /\ semantic.errors[1].severity = "ERROR"

\* a line whose column 7 is * or /
isCommentLine(rawLine) == Len(rawLine) >= 7 /\ rawLine[7] \in {"*", "/"}
\* what a line has in the columns 7 to 72
codeColumns(rawLine) == SubSeq(rawLine, 7, IF Len(rawLine) < 72 THEN Len(rawLine) ELSE 72)
\* what the Lexer is to read of a line: that it is a comment, or else its
\* columns 7 to 72 (which do not start with * or /)
codeOf(rawLine) == IF isCommentLine(rawLine) THEN <<"*">> ELSE codeColumns(rawLine)
\* the sources by what is to be read of each of their lines
CodeOfSource ==
    [source \in LexSources |->
        [i \in 1..Len(split(source)) |-> codeOf(split(source)[i])]]
\* two sources of as many lines that differ only in the columns 1 to 6, in
\* the columns from 73 on, or in the text of comment lines
differOutsideTheCode(a, b) == CodeOfSource[a] = CodeOfSource[b]
\* what tokenize makes of each of the sources
TokenizedSources == [source \in LexSources |-> tokenized(source)]
\* C37: the token list depends only on the columns 8 to 72 of the lines
\* that are not comments: a source that differs from the tokenized one only
\* outside them has the same tokens, type, text, line and column, the
\* end-of-file token included, or throws the same error
C37_TokensDependOnCodeColumns ==
    lexer.phase # "idle" =>
        \A other \in LexSources :
            differOutsideTheCode(lexer.source, other) =>
                /\ TokenizedSources[other].error = lexer.error
                /\ lexer.phase = "returned" =>
                       TokenizedSources[other].tokens = lexer.tokens
\* C37, its case: a comment line with text beyond column 72, then a line
\* with text in the columns 1 to 6 and beyond column 72, have been
\* tokenized
C37_NumberedLines ==
    /\ lexer.phase = "returned"
    /\ lexer.source = SourceLine(<<"A", "B", "'", "D", "(", "F">>, "*", <<" ", " ", " ",
                                   " ", "X", " ", "#", " ", "Y">>, "text") \o <<LF>>
                      \o SourceLine(<<"A", "B", "'", "D", "(", "F">>, " ", <<" ", " ", " ",
                                      " ", "M", "O", "V", "E", " ", "'", "A", "'", " ", "T",
                                      "O", " ", "X", ".">>, "text")
    /\ lexer.tokens = <<Token("MOVE", <<"M", "O", "V", "E">>, 2, 12),
                        Token("LITERAL_STRING", <<"A">>, 2, 17),
                        Token("TO", <<"T", "O">>, 2, 21),
                        Token("IDENTIFIER", <<"X">>, 2, 24),
                        Token("DOT", <<".">>, 2, 25),
                        Token("EOF", <<"E", "O", "F">>, 3, 0)>>

\* C38: a quoted literal of the source is a literal at run time, whatever
\* the Working-Storage declares: the run of DISPLAY 'text' ends with the
\* line text and no error, the run of MOVE 'text' TO R, DISPLAY R with the
\* text in the three characters of R and no error
C38_QuotedLiteralIsNeverAName ==
    phase = "returned" =>
        \A quote \in Quotes, text \in LiteralTexts :
            /\ lexer.source = LiteralDisplay(quote, text)
                   => output = <<text>> /\ errors = <<>>
            /\ lexer.source = LiteralMove(quote, text)
                   => output = <<padEnd(text, 3)>> /\ errors = <<>>
\* C38, its case: DISPLAY 'T' has been tokenized, parsed and run with a
\* Working-Storage that declares T with the value abc
C38_LiteralSpellsAName ==
    /\ phase = "returned"
    /\ lexer.source = LiteralDisplay("'", nT)
    /\ Len(ast.dataDivision.workingStorage) = 2
    /\ parser.statements[1] = AtLine(DisplayStmt(<<Str(nT)>>), 2)
    /\ ast.dataDivision.workingStorage[2] = Decl(nT, "X", 3, Q(<<"a", "b", "c">>))
    /\ output = <<<<"a", "b", "c">>>>

\* one frame, of an identity no frame had before, is put on top of the stack
framePushed ==
    /\ Len(callStack') = Len(callStack) + 1
    /\ SubSeq(callStack', 1, Len(callStack)) = callStack
    /\ callStack'[Len(callStack')].fid = nextFid
    /\ nextFid' > nextFid
    /\ \A j \in 1..Len(callStack) : callStack[j].fid < nextFid
\* the frame on top of the stack is taken off
framePopped ==
    /\ callStack # <<>>
    /\ callStack' = SubSeq(callStack, 1, Len(callStack) - 1)
\* C39: the call stack changes only by the push of a new frame on top or by
\* the pop of the top frame, and when run returns without a runtime error
\* no frame is left on it
C39_FramesPoppedOnceInLifoOrder ==
    [][/\ callStack' # callStack => framePushed \/ framePopped
       /\ phase' = "returned" /\ errors' = <<>> => callStack' = <<>>]_vars
\* C39, its case: the run of OUTER has returned without an error after INNER,
\* two calls deep, executed STOP RUN; three frames had been pushed
C39_StoppedTwoCallsDeep ==
    /\ phase = "returned"
    /\ errors = <<>>
    /\ ast = OuterProgram
    /\ MapHas(programRepository, nINNER)
    /\ programRepository[nINNER] = Nested(nINNER, <<StopRun>>)
    /\ nextFid = 4
    /\ output = <<>>
    /\ callStack = <<>>

\* the lines the parser recorded on the statements of a list and on the
\* statements of their bodies
RECURSIVE linesOf(_)
linesOf(statements) ==
    IF statements = <<>> THEN {}
    ELSE LET stmt == statements[1]
             inside(field) == IF field \in DOMAIN stmt THEN linesOf(stmt[field]) ELSE {}
         IN  {stmt.line} \cup inside("thenBody") \cup inside("elseBody")
                \cup inside("body") \cup linesOf(Tail(statements))
\* the diagnostics pass 2 raises for the statement stmt
raisedFor(stmt) == validateStatements(semantic.symbolTable, <<stmt>>, <<>>)
\* C40: every diagnostic the semantic validator raises for a statement is at
\* the line the parser recorded on that statement or on a statement of its
\* body, never at line 0
C40_DiagnosticsCarryTheStatementLine ==
    semantic.ast # NoProgram =>
        \A j \in DOMAIN semantic.ast.procedureDivision.statements :
            LET stmt == semantic.ast.procedureDivision.statements[j]
            IN  \A i \in DOMAIN raisedFor(stmt) :
                    /\ raisedFor(stmt)[i].line \in linesOf(<<stmt>>)
                    /\ raisedFor(stmt)[i].line # 0
\* C40, its case: MOVE 1 TO A, parsed from line 3 of the source, has been
\* validated and its diagnostic is in the list
C40_MoveOnLineThree ==
    /\ semantic.ast # NoProgram
    /\ Len(semantic.ast.procedureDivision.statements) = 2
    /\ semantic.ast.procedureDivision.statements[2] = AtLine(MoveStmt(Num(1), nA), 3)
    /\ semantic.ast.procedureDivision.statements[1].type = "DISPLAY"
    /\ Len(semantic.errors) = 1
    /\ semantic.errors[1].code = "IGYPS2104-E"
    /\ semantic.errors[1].line = 0

====
